---- MODULE Spec2Model ----
(***************************************************************************)
(* Model of the sp3 crate: the line parser (SP3::from_file), the writer    *)
(* (SP3::to_file) and the merger (impl Merge for SP3).                     *)
(*                                                                         *)
(* Text is modelled at character level: a line is a sequence of            *)
(* one-character strings, so that column slices, prefixes and line lengths *)
(* are computed as the code computes them.  Real numbers of the file       *)
(* format (coordinates, clocks, day fractions) are fixed-point integers    *)
(* counted in millionths (six decimals, as the format prints them).        *)
(***************************************************************************)
EXTENDS Integers, Sequences, FiniteSets, TLC

\* F(v) with v evaluated once, as a Rust let binds a value
With(v, F(_)) == CHOOSE r \in {F(x) : x \in {v}} : TRUE

(***************************************************************************)
(* Text primitives (Rust str operations used by the parser).               *)
(***************************************************************************)

Digits == <<"0", "1", "2", "3", "4", "5", "6", "7", "8", "9">>

IsDigit(c) == \E i \in 1..10 : Digits[i] = c

DigitVal(c) == (CHOOSE i \in 1..10 : Digits[i] = c) - 1

IsSpace(c) == c = " "

\* s.starts_with(p)
starts_with(s, p) == Len(s) >= Len(p) /\ SubSeq(s, 1, Len(p)) = p

\* whether the byte range a..b of s exists (slicing outside it panics)
InRange(s, a, b) == a <= b /\ b <= Len(s)

\* &s[a..b], for a range that exists
Slice(s, a, b) == SubSeq(s, a + 1, b)

\* &s[a..], for a range that exists
SliceFrom(s, a) == SubSeq(s, a + 1, Len(s))

RECURSIVE trim_start(_)
trim_start(s) ==
    IF s # <<>> /\ IsSpace(Head(s)) THEN trim_start(Tail(s)) ELSE s

RECURSIVE trim_end(_)
trim_end(s) ==
    IF s # <<>> /\ IsSpace(s[Len(s)]) THEN trim_end(SubSeq(s, 1, Len(s) - 1)) ELSE s

\* str::trim
trim(s) == trim_end(trim_start(s))

\* the marker of a failed conversion (Err / None)
None == -1

RECURSIVE DigitsValue(_, _)
DigitsValue(s, acc) ==
    IF s = <<>> THEN acc ELSE DigitsValue(Tail(s), acc * 10 + DigitVal(Head(s)))

AllDigits(s) == s # <<>> /\ \A i \in 1..Len(s) : IsDigit(s[i])

\* u32::from_str: an optional '+' then decimal digits; None otherwise
u32_from_str(s) ==
    LET body == IF s # <<>> /\ Head(s) = "+" THEN Tail(s) ELSE s
    IN  IF AllDigits(body) THEN DigitsValue(body, 0) ELSE None

\* the position of the first c in s, 0 when absent
RECURSIVE FindChar(_, _, _)
FindChar(s, c, i) ==
    IF i > Len(s) THEN 0 ELSE IF s[i] = c THEN i ELSE FindChar(s, c, i + 1)

\* the number of millionths in one unit of a fixed-point value
Micro == 1000000

RECURSIVE Pow10(_)
Pow10(n) == IF n = 0 THEN 1 ELSE 10 * Pow10(n - 1)

\* f64::from_str on plain decimal text: [ok, val] with val in millionths.
\* Accepts [sign] digits [. digits], at least one digit.  Decimals beyond the
\* sixth are dropped (the files of this model keep them zero); exponents are
\* outside the inputs of this model.
f64_from_str(s) ==
    LET neg  == s # <<>> /\ Head(s) = "-"
        body == IF s # <<>> /\ (Head(s) = "-" \/ Head(s) = "+") THEN Tail(s) ELSE s
        dot  == FindChar(body, ".", 1)
        ip   == IF dot = 0 THEN body ELSE SubSeq(body, 1, dot - 1)
        fp   == IF dot = 0 THEN <<>> ELSE SubSeq(body, dot + 1, Len(body))
        okI  == ip = <<>> \/ AllDigits(ip)
        okF  == fp = <<>> \/ AllDigits(fp)
        ok   == okI /\ okF /\ (ip # <<>> \/ fp # <<>>)
        f6   == IF Len(fp) > 6 THEN SubSeq(fp, 1, 6) ELSE fp
        mag  == DigitsValue(ip, 0) * Micro + DigitsValue(f6, 0) * Pow10(6 - Len(f6))
    IN  IF ok THEN [ok |-> TRUE, val |-> IF neg THEN 0 - mag ELSE mag]
        ELSE [ok |-> FALSE, val |-> 0]

(***************************************************************************)
(* Formatting (Rust format! specifiers used by the writer, and by the      *)
(* constructors of the input lines).                                       *)
(***************************************************************************)

RECURSIVE Dec(_)
\* "{}" of a natural number
Dec(n) == IF n < 10 THEN <<Digits[n + 1]>> ELSE Dec(n \div 10) \o <<Digits[(n % 10) + 1]>>

RECURSIVE Repeat(_, _)
Repeat(c, n) == IF n <= 0 THEN <<>> ELSE <<c>> \o Repeat(c, n - 1)

\* right-aligned in a field of at least w characters, filled with c
PadLeft(s, w, c) == Repeat(c, w - Len(s)) \o s

\* "{:0w}" of a natural number
FmtZero(n, w) == PadLeft(Dec(n), w, "0")

\* "{:w}" of a natural number (numbers align right)
FmtInt(n, w) == PadLeft(Dec(n), w, " ")

\* "{:w.p}" of a real held in millionths: sign, integer part, '.', p decimals
FmtFix(v, w, p) ==
    LET mag  == IF v < 0 THEN 0 - v ELSE v
        frac == FmtZero(mag % Micro, 6)
        decs == IF p <= 6 THEN SubSeq(frac, 1, p) ELSE frac \o Repeat("0", p - 6)
        txt  == (IF v < 0 THEN <<"-">> ELSE <<>>) \o Dec(mag \div Micro)
                \o (IF p > 0 THEN <<".">> \o decs ELSE <<>>)
    IN  PadLeft(txt, w, " ")

\* "{}" of an f64 held in millionths: the shortest text that reads back
\* ("0" prints as "0", "0.5" as "0.5")
RECURSIVE StripZeros(_)
StripZeros(s) == IF s # <<>> /\ s[Len(s)] = "0" THEN StripZeros(SubSeq(s, 1, Len(s) - 1)) ELSE s

FmtFloat(v) ==
    LET mag  == IF v < 0 THEN 0 - v ELSE v
        decs == StripZeros(FmtZero(mag % Micro, 6))
    IN  (IF v < 0 THEN <<"-">> ELSE <<>>) \o Dec(mag \div Micro)
        \o (IF decs = <<>> THEN <<>> ELSE <<".">> \o decs)

(***************************************************************************)
(* Time (hifitime).  An Epoch is an instant: whole seconds on the TAI      *)
(* axis, counted from 2019-10-27T00:00:00 TAI (the start of the crate's    *)
(* sample file).  Two Epochs are equal, or ordered, as instants.           *)
(***************************************************************************)

TimeScales == {"TAI", "UTC", "GPST", "GST"}

\* TimeScale::default()
DefaultTimeScale == "TAI"

\* TimeScale::from_str: None for an unknown token
TimeScale_from_str(s) ==
    CASE s = <<"G", "P", "S">> -> "GPST"
      [] s = <<"U", "T", "C">> -> "UTC"
      [] s = <<"T", "A", "I">> -> "TAI"
      [] s = <<"G", "A", "L">> -> "GST"
      [] OTHER -> "none"

\* seconds by which a clock of the time scale is behind TAI (at the dates of
\* this model: 37 leap seconds in UTC, GPST and GST 19 s behind TAI)
ToTAI(ts) ==
    CASE ts = "UTC" -> 37
      [] ts = "GPST" -> 19
      [] ts = "GST" -> 19
      [] OTHER -> 0

\* days from 1970-01-01 of a Gregorian date
DaysFromCivil(y, m, d) ==
    LET yy  == IF m <= 2 THEN y - 1 ELSE y
        era == yy \div 400
        yoe == yy - era * 400
        mp  == IF m > 2 THEN m - 3 ELSE m + 9
        doy == (153 * mp + 2) \div 5 + d - 1
        doe == yoe * 365 + yoe \div 4 - yoe \div 100 + doy
    IN  era * 146097 + doe - 719468

\* the Gregorian date <<y, m, d>> of a day number
CivilFromDays(z0) ==
    LET z   == z0 + 719468
        era == z \div 146097
        doe == z - era * 146097
        yoe == (doe - doe \div 1460 + doe \div 36524 - doe \div 146096) \div 365
        doy == doe - (365 * yoe + yoe \div 4 - yoe \div 100)
        mp  == (5 * doy + 2) \div 153
        d   == doy - (153 * mp + 2) \div 5 + 1
        m   == IF mp < 10 THEN mp + 3 ELSE mp - 9
        y   == yoe + era * 400 + (IF m <= 2 THEN 1 ELSE 0)
    IN  <<y, m, d>>

IsLeapYear(y) == (y % 4 = 0 /\ y % 100 # 0) \/ y % 400 = 0

DaysInMonth(y, m) ==
    IF m = 2 THEN (IF IsLeapYear(y) THEN 29 ELSE 28)
    ELSE IF m \in {4, 6, 9, 11} THEN 30 ELSE 31

\* the day number of the reference date 2019-10-27
RefDay == DaysFromCivil(2019, 10, 27)

SecondsPerDay == 86400

\* Epoch::from_str("YYYY-MM-DDTHH:MM:SS <ts>"): the instant, None when the
\* calendar fields name no date-time
Epoch_from_gregorian(y, m, d, hh, mm, ss, ts) ==
    IF m \in 1..12 /\ d >= 1 /\ d <= DaysInMonth(y, m) /\ hh < 24 /\ mm < 60 /\ ss < 60
    THEN [ok |-> TRUE,
          t |-> (DaysFromCivil(y, m, d) - RefDay) * SecondsPerDay
                + hh * 3600 + mm * 60 + ss + ToTAI(ts)]
    ELSE [ok |-> FALSE, t |-> 0]

\* Epoch::to_gregorian_utc: <<y, m, d, hh, mm, ss, ns>>
to_gregorian_utc(t) ==
    LET u    == t - ToTAI("UTC")
        day  == IF u >= 0 THEN u \div SecondsPerDay
                ELSE 0 - ((0 - u + SecondsPerDay - 1) \div SecondsPerDay)
        sod  == u - day * SecondsPerDay
        ymd  == CivilFromDays(RefDay + day)
    IN  <<ymd[1], ymd[2], ymd[3], sod \div 3600, (sod % 3600) \div 60, sod % 60, 0>>

\* Epoch::default(): J1900 TAI, 3.78e9 s before the reference, which TLC's
\* 32-bit integers cannot hold; it is held as an instant earlier than every
\* instant a file of this model can name
DefaultEpoch == -2000000000

(***************************************************************************)
(* Enumerations of the header.                                             *)
(***************************************************************************)

\* Version::from_str ("c" | "d")
Version_from_str(s) ==
    CASE s = <<"d">> -> "D"
      [] s = <<"c">> -> "C"
      [] OTHER -> "none"

\* Display for Version
Version_to_str(v) == IF v = "C" THEN <<"c">> ELSE <<"d">>

\* From<Version> for u8
Version_to_u8(v) == IF v = "D" THEN 4 ELSE 3

\* PartialOrd derived on the enum: C < D
Version_gt(a, b) == a = "D" /\ b = "C"

\* the largest u8
MaxU8 == 255

\* From<u8> for Version: 4..=u8::MAX => D, 0..=3 => C
Version_from_u8(lhs) == IF lhs >= 4 THEN "D" ELSE "C"

\* Add<u8> for Version: (s + rhs).into() on u8, in a build that checks
\* overflow or in one that wraps: [status, v]
Version_add(v, rhs, checks) ==
    IF Version_to_u8(v) + rhs <= MaxU8
    THEN [status |-> "ok", v |-> Version_from_u8(Version_to_u8(v) + rhs)]
    ELSE IF checks THEN [status |-> "panic", v |-> v]
    ELSE [status |-> "ok", v |-> Version_from_u8((Version_to_u8(v) + rhs) % (MaxU8 + 1))]

\* Sub<u8> for Version: (s - rhs).into() on u8: [status, v]
Version_sub(v, rhs, checks) ==
    IF Version_to_u8(v) - rhs >= 0
    THEN [status |-> "ok", v |-> Version_from_u8(Version_to_u8(v) - rhs)]
    ELSE IF checks THEN [status |-> "panic", v |-> v]
    ELSE [status |-> "ok", v |-> Version_from_u8(Version_to_u8(v) - rhs + MaxU8 + 1)]

\* DataType::from_str ("P" | "V")
DataType_from_str(s) ==
    CASE s = <<"P">> -> "Position"
      [] s = <<"V">> -> "Velocity"
      [] OTHER -> "none"

\* Display for DataType
DataType_to_str(t) == IF t = "Velocity" THEN <<"V">> ELSE <<"P">>

\* OrbitType::from_str
OrbitType_from_str(s) ==
    CASE s = <<"F", "I", "T">> -> "FIT"
      [] s = <<"E", "X", "T">> -> "EXT"
      [] s = <<"B", "C", "T">> -> "BCT"
      [] s = <<"B", "H", "N">> -> "BHN"
      [] s = <<"H", "L", "M">> -> "HLM"
      [] OTHER -> "none"

\* Display for OrbitType
OrbitType_to_str(o) ==
    CASE o = "FIT" -> <<"F", "I", "T">>
      [] o = "EXT" -> <<"E", "X", "T">>
      [] o = "BCT" -> <<"B", "C", "T">>
      [] o = "BHN" -> <<"B", "H", "N">>
      [] OTHER -> <<"H", "L", "M">>

\* Constellation::from_str on the one-letter code of a %c line
Constellation_from_str(s) ==
    CASE s = <<"G">> -> "GPS"
      [] s = <<"R">> -> "Glonass"
      [] s = <<"E">> -> "Galileo"
      [] s = <<"M">> -> "Mixed"
      [] OTHER -> "none"

\* Constellation::default()
DefaultConstellation == "GPS"

\* the one-letter code of a constellation (Display of an Sv starts with it)
Constellation_letter(c) ==
    CASE c = "GPS" -> "G"
      [] c = "Glonass" -> "R"
      [] c = "Galileo" -> "E"
      [] OTHER -> "M"

(***************************************************************************)
(* The "data used" descriptor (data_used.rs).                              *)
(***************************************************************************)

UpperCase == <<"A", "B", "C", "D", "E", "F", "G", "H", "I", "J", "K", "L", "M",
               "N", "O", "P", "Q", "R", "S", "T", "U", "V", "W", "X", "Y", "Z">>

LowerCase == <<"a", "b", "c", "d", "e", "f", "g", "h", "i", "j", "k", "l", "m",
               "n", "o", "p", "q", "r", "s", "t", "u", "v", "w", "x", "y", "z">>

\* str::to_ascii_lowercase
to_ascii_lowercase(s) ==
    [i \in 1..Len(s) |->
        IF \E k \in 1..26 : UpperCase[k] = s[i]
        THEN LowerCase[CHOOSE k \in 1..26 : UpperCase[k] = s[i]]
        ELSE s[i]]

\* DataUsedUnitary::from_str: "none" for an unknown token
DataUsedUnitary_from_str(s) ==
    CASE s = <<"u">> -> "UndifferencedPhase"
      [] s = <<"d", "u">> -> "UndifferencedPhaseDerivative"
      [] s = <<"s">> -> "DualReceiverPhase"
      [] s = <<"d", "s">> -> "DualReceiverPhaseDerivative"
      [] s = <<"d">> -> "DualReceiverDualPhase"
      [] s = <<"d", "d">> -> "DualReceiverDualPhaseDerivative"
      [] s = <<"U">> -> "UndifferencedCode"
      [] s = <<"d", "U">> -> "UndifferencedCodeDerivative"
      [] s = <<"S">> -> "DualReceiverCode"
      [] s = <<"d", "S">> -> "DualReceiverCodeDerivative"
      [] s = <<"D">> -> "DualReceiverDualCode"
      [] s = <<"d", "D">> -> "DualReceiverDualCodeDerivative"
      [] to_ascii_lowercase(s) = <<"m", "i", "x", "e", "d">> -> "ComplexMix"
      [] to_ascii_lowercase(s) = <<"o", "r", "b", "i", "t">> -> "Orbit"
      [] OTHER -> "none"

\* Display for DataUsedUnitary
DataUsedUnitary_to_str(u) ==
    CASE u = "UndifferencedPhase" -> <<"u">>
      [] u = "UndifferencedPhaseDerivative" -> <<"d", "u">>
      [] u = "DualReceiverPhase" -> <<"s">>
      [] u = "DualReceiverPhaseDerivative" -> <<"d", "s">>
      [] u = "DualReceiverDualPhase" -> <<"d">>
      [] u = "DualReceiverDualPhaseDerivative" -> <<"d", "d">>
      [] u = "UndifferencedCode" -> <<"U">>
      [] u = "UndifferencedCodeDerivative" -> <<"d", "U">>
      [] u = "DualReceiverCode" -> <<"S">>
      [] u = "DualReceiverCodeDerivative" -> <<"d", "S">>
      [] u = "DualReceiverDualCode" -> <<"D">>
      [] u = "DualReceiverDualCodeDerivative" -> <<"d", "D">>
      [] u = "ComplexMix" -> <<"M", "I", "X", "E", "D">>
      [] OTHER -> <<"O", "R", "B", "I", "T">>

\* DataUsed::default(): no category
DefaultDataUsed == <<>>

\* DataUsed::from_str: [ok, inner]
DataUsed_from_str(s) ==
    LET content == trim(s)
        plus    == FindChar(content, "+", 1)
    IN  IF content = <<"M", "I", "X", "E", "D">>
        THEN [ok |-> TRUE, inner |-> <<"ComplexMix">>]
        ELSE IF plus # 0
        THEN LET a == DataUsedUnitary_from_str(SubSeq(content, 1, plus - 1))
                 b == DataUsedUnitary_from_str(SubSeq(content, plus + 1, Len(content)))
             IN  IF a = "none" \/ b = "none" THEN [ok |-> FALSE, inner |-> <<>>]
                 ELSE [ok |-> TRUE, inner |-> <<a, b>>]
        ELSE LET a == DataUsedUnitary_from_str(content)
             IN  IF a = "none" THEN [ok |-> FALSE, inner |-> <<>>]
                 ELSE [ok |-> TRUE, inner |-> <<a>>]

\* Display for DataUsed
DataUsed_to_str(inner) ==
    IF Len(inner) = 1 THEN DataUsedUnitary_to_str(inner[1])
    ELSE IF Len(inner) > 1
    THEN DataUsedUnitary_to_str(inner[1]) \o <<"+">> \o DataUsedUnitary_to_str(inner[2])
    ELSE <<>>

\* DataUsed::complex_combination: [status, some, v]; reading inner[0] of
\* an empty vector panics
complex_combination(inner) ==
    IF Len(inner) = 0
    THEN IF Len(inner) < 1
         THEN [status |-> "panic", some |-> FALSE, v |-> FALSE]
         ELSE [status |-> "ok", some |-> TRUE, v |-> inner[1] = "ComplexMix"]
    ELSE [status |-> "ok", some |-> TRUE, v |-> FALSE]

\* DataUsed::combination: Some((inner[0], inner[1])) or None
combination(inner) ==
    IF Len(inner) = 2
    THEN [status |-> "ok", some |-> TRUE, v |-> <<inner[1], inner[2]>>]
    ELSE [status |-> "ok", some |-> FALSE, v |-> << >>]

\* DataUsed::single: Some(inner[0]) or None
single(inner) ==
    IF Len(inner) = 1
    THEN [status |-> "ok", some |-> TRUE, v |-> <<inner[1]>>]
    ELSE [status |-> "ok", some |-> FALSE, v |-> << >>]

(***************************************************************************)
(* Vehicles (rinex Sv): a constellation and a number.                      *)
(***************************************************************************)

\* Sv::from_str on "G01": [ok, sv]
Sv_from_str(s) ==
    LET c == IF s = <<>> THEN "none" ELSE Constellation_from_str(<<Head(s)>>)
        n == IF s = <<>> THEN None ELSE u32_from_str(trim(Tail(s)))
    IN  IF c = "none" \/ n = None \/ n > 255
        THEN [ok |-> FALSE, sv |-> [constellation |-> "GPS", prn |-> 0]]
        ELSE [ok |-> TRUE, sv |-> [constellation |-> c, prn |-> n]]

\* Display for Sv: the constellation letter and the two-digit number
Sv_to_str(sv) == <<Constellation_letter(sv.constellation)>> \o FmtZero(sv.prn, 2)

\* the rank of a capital letter
LetterIndex(c) == CHOOSE k \in 1..26 : UpperCase[k] = c

\* Ord for Sv (the key order of the per-epoch maps)
Sv_lt(a, b) ==
    LET ia == LetterIndex(Constellation_letter(a.constellation))
        ib == LetterIndex(Constellation_letter(b.constellation))
    IN  ia < ib \/ (ia = ib /\ a.prn < b.prn)

(***************************************************************************)
(* Records: BTreeMap<Epoch, BTreeMap<Sv, value>>, a function from the      *)
(* epochs that hold data to a function from vehicles to values.            *)
(***************************************************************************)

EmptyMap == << >>

\* BTreeMap::insert on a one-level map
Put(m, k, v) == [x \in (DOMAIN m) \cup {k} |-> IF x = k THEN v ELSE m[x]]

\* the record insertion of from_file: get_mut(epoch) then insert, or a new
\* per-vehicle map
Insert(rec, epoch, sv, v) ==
    IF epoch \in DOMAIN rec
    THEN Put(rec, epoch, Put(rec[epoch], sv, v))
    ELSE Put(rec, epoch, Put(EmptyMap, sv, v))

\* Vec::contains
Contains(seq, x) == \E i \in 1..Len(seq) : seq[i] = x

\* if !v.contains(x) { v.push(x) }
PushUnique(seq, x) == IF Contains(seq, x) THEN seq ELSE Append(seq, x)

(***************************************************************************)
(* Line classifiers.                                                       *)
(***************************************************************************)

file_descriptor(content) == starts_with(content, <<"%", "c">>)

sp3_comment(content) == starts_with(content, <<"/", "*">>)

end_of_file(content) == content = <<"E", "O", "F">>

new_epoch(content) == starts_with(content, <<"*", " ", " ">>)

is_header_line1(content) == starts_with(content, <<"#">>)

is_header_line2(content) == starts_with(content, <<"#", "#">>)

position_entry(content) == starts_with(content, <<"P">>)

velocity_entry(content) == starts_with(content, <<"V">>)

(***************************************************************************)
(* Line decoders.  Each returns a record whose err is "" on success, the   *)
(* name of the error otherwise ("panic" for a slice out of range).         *)
(***************************************************************************)

\* the width of the fixed-width lines of the grammar
LineWidth == 60

\* Line1::from_str and Line1::to_parts
Line1_from_str(line) ==
    LET version    == Version_from_str(Slice(line, 1, 2))
        data_type  == DataType_from_str(Slice(line, 2, 3))
        data_used  == DataUsed_from_str(Slice(line, 40, 45))
        orbit_type == OrbitType_from_str(trim(Slice(line, 52, 55)))
        bad(e)     == [err |-> e, version |-> "D", data_type |-> "Position",
                       data_used |-> <<>>, coord_system |-> <<>>,
                       orbit_type |-> "FIT", agency |-> <<>>]
    IN  IF Len(line) # LineWidth THEN bad("MalformedH1")
        ELSE IF version = "none" THEN bad("UnknownVersion")
        ELSE IF data_type = "none" THEN bad("UnknownDataType")
        ELSE IF ~data_used.ok THEN bad("DataUsedUnitary")
        ELSE IF orbit_type = "none" THEN bad("UnknownOrbitType")
        ELSE [err |-> "", version |-> version, data_type |-> data_type,
              data_used |-> data_used.inner,
              coord_system |-> trim(Slice(line, 46, 51)),
              orbit_type |-> orbit_type,
              agency |-> trim(Slice(line, 56, 60))]

\* Line2::from_str and Line2::to_parts
Line2_from_str(line) ==
    LET week  == u32_from_str(trim(Slice(line, 3, 7)))
        wfrac == f64_from_str(trim(Slice(line, 8, 23)))
        dt    == f64_from_str(trim(Slice(line, 24, 38)))
        mjd   == u32_from_str(trim(Slice(line, 39, 44)))
        mfrac == f64_from_str(trim(Slice(line, 45, 60)))
        bad(e) == [err |-> e, week_counter |-> <<0, 0>>, epoch_interval |-> 0,
                   mjd_start |-> <<0, 0>>]
    IN  IF Len(line) # LineWidth THEN bad("MalformedH2")
        ELSE IF week = None \/ ~wfrac.ok THEN bad("WeekCounter")
        ELSE IF ~dt.ok THEN bad("EpochInterval")
        ELSE IF mjd = None \/ ~mfrac.ok THEN bad("Mjd")
        ELSE [err |-> "", week_counter |-> <<week, wfrac.val>>,
              epoch_interval |-> dt.val, mjd_start |-> <<mjd, mfrac.val>>]

\* the text of an absent clock
ClockSentinel == <<"9", "9", "9", "9", "9", "9", ".">>

\* PositionEntry::from_str / VelocityEntry::from_str and to_parts, on a line
\* of at least 60 characters: the vehicle, three 14-character coordinates
\* and the optional clock field
Entry_from_str(line) ==
    LET sv   == Sv_from_str(trim(Slice(line, 1, 4)))
        x    == f64_from_str(trim(Slice(line, 4, 18)))
        y    == f64_from_str(trim(Slice(line, 18, 32)))
        z    == f64_from_str(trim(Slice(line, 32, 46)))
        ctxt == trim(Slice(line, 46, 60))
        absent == ctxt = <<>> \/ starts_with(ctxt, ClockSentinel)
        clk  == IF absent THEN [ok |-> TRUE, val |-> 0] ELSE f64_from_str(ctxt)
        bad(e) == [err |-> e, sv |-> sv.sv, vec |-> <<0, 0, 0>>,
                   clk |-> [some |-> FALSE, val |-> 0]]
    IN  IF ~sv.ok THEN bad("Sv")
        ELSE IF ~x.ok \/ ~y.ok \/ ~z.ok THEN bad("Coordinates")
        ELSE IF ~clk.ok THEN bad("Clock")
        ELSE [err |-> "", sv |-> sv.sv, vec |-> <<x.val, y.val, z.val>>,
              clk |-> [some |-> ~absent, val |-> clk.val]]

\* one calendar field of parse_epoch: the slice a..b, trimmed, as a u32
EpochField(content, a, b) ==
    IF ~InRange(content, a, b) THEN [err |-> "panic", val |-> 0]
    ELSE LET v == u32_from_str(trim(Slice(content, a, b)))
         IN  IF v = None THEN [err |-> "parse", val |-> 0] ELSE [err |-> "", val |-> v]

\* parse_epoch: [err, t]
parse_epoch(content, time_scale) ==
    LET y  == EpochField(content, 0, 4)
        m  == EpochField(content, 4, 7)
        d  == EpochField(content, 7, 10)
        hh == EpochField(content, 10, 13)
        mm == EpochField(content, 13, 16)
        ss == EpochField(content, 16, 19)
        fr == IF ~InRange(content, 20, 27) THEN "panic"
              ELSE IF f64_from_str(trim(Slice(content, 20, 27))).ok THEN "" ELSE "parse"
        e  == Epoch_from_gregorian(y.val, m.val, d.val, hh.val, mm.val, ss.val, time_scale)
        fail(f, name) == IF f = "panic" THEN "panic" ELSE name
    IN  IF y.err # "" THEN [err |-> fail(y.err, "EpochYear"), t |-> 0]
        ELSE IF m.err # "" THEN [err |-> fail(m.err, "EpochMonth"), t |-> 0]
        ELSE IF d.err # "" THEN [err |-> fail(d.err, "EpochDay"), t |-> 0]
        ELSE IF hh.err # "" THEN [err |-> fail(hh.err, "EpochHours"), t |-> 0]
        ELSE IF mm.err # "" THEN [err |-> fail(mm.err, "EpochMinutes"), t |-> 0]
        ELSE IF ss.err # "" THEN [err |-> fail(ss.err, "EpochSeconds"), t |-> 0]
        ELSE IF fr # "" THEN [err |-> fail(fr, "EpochMilliSeconds"), t |-> 0]
        ELSE IF ~e.ok THEN [err |-> "Epoch", t |-> 0]
        ELSE [err |-> "", t |-> e.t]

(***************************************************************************)
(* SP3::from_file: the locals of the parser, one step per line.            *)
(***************************************************************************)

Unknown == <<"U", "n", "k", "n", "o", "w", "n">>

\* the locals of from_file before the first line.  status: "run" while
\* lines are read, "eof" after the end marker, "skip" within a line after a
\* continue, the name of the error after a failure.  checks: whether the
\* build checks integer overflow (debug) or wraps (release).
ParserInit(checks) ==
    [status |-> "run", checks |-> checks,
     version |-> "D", data_used |-> DefaultDataUsed, data_type |-> "Position",
     time_system |-> DefaultTimeScale, constellation |-> DefaultConstellation,
     pc_count |-> 0,
     coord_system |-> Unknown, orbit_type |-> "FIT", agency |-> Unknown,
     week_counter |-> <<0, 0>>, epoch_interval |-> 0, mjd_start |-> <<0, 0>>,
     vehicles |-> <<>>, position |-> EmptyMap, velocities |-> EmptyMap,
     clock |-> EmptyMap, clock_rate |-> EmptyMap, comments |-> <<>>,
     epoch |-> DefaultEpoch, epochs |-> <<>>]

\* the statements that follow a return or a continue do not run
Then(st, F(_)) == With(st, LAMBDA s : IF s.status # "run" THEN s ELSE F(s))

\* if is_header_line1(line) && !is_header_line2(line) { ... }
Header1Step(st, line) ==
    IF ~(is_header_line1(line) /\ ~is_header_line2(line)) THEN st
    ELSE With(Line1_from_str(line), LAMBDA l1 :
           IF l1.err # "" THEN [st EXCEPT !.status = l1.err]
           ELSE [st EXCEPT !.version = l1.version, !.data_type = l1.data_type,
                           !.data_used = l1.data_used,
                           !.coord_system = l1.coord_system,
                           !.orbit_type = l1.orbit_type, !.agency = l1.agency])

\* if is_header_line2(line) { ... }
Header2Step(st, line) ==
    IF ~is_header_line2(line) THEN st
    ELSE With(Line2_from_str(line), LAMBDA l2 :
           IF l2.err # "" THEN [st EXCEPT !.status = l2.err]
           ELSE [st EXCEPT !.week_counter = l2.week_counter,
                           !.epoch_interval = l2.epoch_interval,
                           !.mjd_start = l2.mjd_start])

\* pc_count += 1 on a u8
CountDescriptor(st) ==
    IF st.pc_count < 255 THEN [st EXCEPT !.pc_count = @ + 1]
    ELSE IF st.checks THEN [st EXCEPT !.status = "panic"]
    ELSE [st EXCEPT !.pc_count = 0]

\* if pc_count == 0 { constellation = ...?; time_system = ...?; }
FirstDescriptor(st, line) ==
    IF st.pc_count # 0 THEN st
    ELSE With(<<Constellation_from_str(trim(Slice(line, 3, 4))),
                TimeScale_from_str(trim(Slice(line, 9, 12)))>>, LAMBDA d :
           IF d[1] = "none" THEN [st EXCEPT !.status = "ConstellationParsingError"]
           ELSE IF d[2] = "none" THEN [st EXCEPT !.status = "HifitimeParsingError"]
           ELSE [st EXCEPT !.constellation = d[1], !.time_system = d[2]])

\* if file_descriptor(line) { ... }
DescriptorStep(st, line) ==
    IF ~file_descriptor(line) THEN st
    ELSE IF Len(line) < LineWidth THEN [st EXCEPT !.status = "MalformedDescriptor"]
    ELSE Then(FirstDescriptor(st, line), LAMBDA s : CountDescriptor(s))

\* if new_epoch(line) { ... }
EpochStep(st, line) ==
    IF ~new_epoch(line) THEN st
    ELSE With(parse_epoch(SliceFrom(line, 3), st.time_system), LAMBDA e :
           IF e.err # "" THEN [st EXCEPT !.status = e.err]
           ELSE [st EXCEPT !.epoch = e.t, !.epochs = Append(@, e.t)])

\* whether a vector is stored
VectorPresent(vec) == vec[1] # 0 /\ vec[2] # 0 /\ vec[3] # 0

\* variant: a short position entry is an error
PositionStep_strict(st, line) ==
    IF ~position_entry(line) THEN st
    ELSE IF Len(line) < LineWidth THEN [st EXCEPT !.status = "Coordinates"]
    ELSE With(Entry_from_str(line), LAMBDA entry :
           IF entry.err # "" THEN [st EXCEPT !.status = entry.err]
           ELSE [st EXCEPT
                   !.vehicles = PushUnique(@, entry.sv),
                   !.position = IF VectorPresent(entry.vec)
                                THEN Insert(@, st.epoch, entry.sv, entry.vec) ELSE @,
                   !.clock = IF entry.clk.some
                             THEN Insert(@, st.epoch, entry.sv, entry.clk.val) ELSE @])

\* if position_entry(line) { ... }
PositionStep(st, line) ==
    IF ~position_entry(line) THEN st
    ELSE IF Len(line) < LineWidth THEN [st EXCEPT !.status = "skip"]
    ELSE With(Entry_from_str(line), LAMBDA entry :
           IF entry.err # "" THEN [st EXCEPT !.status = entry.err]
           ELSE [st EXCEPT
                   !.vehicles = PushUnique(@, entry.sv),
                   !.position = IF VectorPresent(entry.vec)
                                THEN Insert(@, st.epoch, entry.sv, entry.vec) ELSE @,
                   !.clock = IF entry.clk.some
                             THEN Insert(@, st.epoch, entry.sv, entry.clk.val) ELSE @])

\* if velocity_entry(line) { ... }
VelocityStep(st, line) ==
    IF ~velocity_entry(line) THEN st
    ELSE IF Len(line) < LineWidth THEN [st EXCEPT !.status = "skip"]
    ELSE With(Entry_from_str(line), LAMBDA entry :
           IF entry.err # "" THEN [st EXCEPT !.status = entry.err]
           ELSE [st EXCEPT
                   !.vehicles = PushUnique(@, entry.sv),
                   !.velocities = IF VectorPresent(entry.vec)
                                  THEN Insert(@, st.epoch, entry.sv, entry.vec) ELSE @,
                   !.clock_rate = IF entry.clk.some
                                  THEN Insert(@, st.epoch, entry.sv, entry.clk.val) ELSE @])

\* the six tests that follow the comment and end-marker tests, in the
\* order of the code
LineSteps(st, line) ==
    Then(Then(Then(Then(Then(Header1Step(st, line),
        LAMBDA s : Header2Step(s, line)),
        LAMBDA s : DescriptorStep(s, line)),
        LAMBDA s : EpochStep(s, line)),
        LAMBDA s : PositionStep(s, line)),
        LAMBDA s : VelocityStep(s, line))

\* the body of the loop over the lines, for one line
ParseLine(st, raw) ==
    With(trim(raw), LAMBDA line :
      IF sp3_comment(line)
      THEN IF Len(line) < 3 THEN [st EXCEPT !.status = "panic"]
           ELSE [st EXCEPT !.comments = Append(@, SliceFrom(line, 3))]
      ELSE IF end_of_file(line) THEN [st EXCEPT !.status = "eof"]
      ELSE With(LineSteps(st, line), LAMBDA s :
             IF s.status = "skip" THEN [s EXCEPT !.status = "run"] ELSE s))

\* the dataset built from the locals (the Ok(Self { ... }) of from_file)
SP3Of(st) ==
    [version |-> st.version, data_type |-> st.data_type, data_used |-> st.data_used,
     epoch |-> st.epochs, time_system |-> st.time_system,
     constellation |-> st.constellation, coord_system |-> st.coord_system,
     orbit_type |-> st.orbit_type, agency |-> st.agency,
     week_counter |-> st.week_counter, epoch_interval |-> st.epoch_interval,
     mjd_start |-> st.mjd_start, sv |-> st.vehicles, position |-> st.position,
     velocities |-> st.velocities, clock |-> st.clock, clock_rate |-> st.clock_rate,
     comments |-> st.comments]

RECURSIVE ParseRange(_, _, _, _)
\* the loop over the lines lo..hi, in order, the first half then the
\* second: stops at the end marker or at the first failure
ParseRange(st, lines, lo, hi) ==
    IF lo > hi \/ st.status # "run" THEN st
    ELSE IF lo = hi THEN ParseLine(st, lines[lo])
    ELSE With(ParseRange(st, lines, lo, (lo + hi) \div 2), LAMBDA s :
           ParseRange(s, lines, (lo + hi) \div 2 + 1, hi))

\* the loop over the lines, from line i on
ParseLines(st, lines, i) == ParseRange(st, lines, i, Len(lines))

\* whether from_file returned Ok
ParsedOk(st) == st.status \in {"run", "eof"}

\* SP3::from_file on the lines of a file, in a build that checks integer
\* overflow or in one that wraps: [ok, err, sp3]
from_file_in(lines, checks) ==
    With(ParseLines(ParserInit(checks), lines, 1), LAMBDA st :
      [ok |-> ParsedOk(st), err |-> IF ParsedOk(st) THEN "" ELSE st.status,
       sp3 |-> SP3Of(st)])

\* SP3::from_file in a build that checks integer overflow
from_file(lines) == from_file_in(lines, TRUE)

(***************************************************************************)
(* impl Merge for SP3.                                                     *)
(***************************************************************************)

\* the least element of a non-empty set of instants
MinOf(S) == CHOOSE x \in S : \A y \in S : x <= y

RECURSIVE Ascending(_)
\* the elements of a set of instants in ascending order (the iteration order
\* of a BTreeMap keyed by Epoch)
Ascending(S) ==
    IF S = {} THEN <<>>
    ELSE With(MinOf(S), LAMBDA m : <<m>> \o Ascending(S \ {m}))

RECURSIVE InsertSorted(_, _)
InsertSorted(seq, x) ==
    IF seq = <<>> THEN <<x>>
    ELSE IF x < Head(seq) THEN <<x>> \o seq
    ELSE <<Head(seq)>> \o InsertSorted(Tail(seq), x)

RECURSIVE sort(_)
\* Vec::sort: ascending, every element kept
sort(seq) ==
    IF seq = <<>> THEN <<>>
    ELSE With(sort(SubSeq(seq, 1, Len(seq) - 1)), LAMBDA s :
           InsertSorted(s, seq[Len(seq)]))

\* variant: the values of the destination are kept on collisions
InsertAll_keep(lhs_sv, svnn) ==
    [x \in (DOMAIN lhs_sv) \cup (DOMAIN svnn) |->
        IF x \in DOMAIN lhs_sv THEN lhs_sv[x] ELSE svnn[x]]

\* for (sv, v) in svnn { lhs_sv.insert(*sv, *v); }
InsertAll(lhs_sv, svnn) ==
    [x \in (DOMAIN lhs_sv) \cup (DOMAIN svnn) |->
        IF x \in DOMAIN svnn THEN svnn[x] ELSE lhs_sv[x]]

RECURSIVE PushAllUnique(_, _, _)
\* for sv in &rhs.sv { if !self.sv.contains(sv) { self.sv.push(*sv); } },
\* from the i-th vehicle of rhs.sv on
PushAllUnique(seq, more, i) ==
    IF i > Len(more) THEN seq
    ELSE With(PushUnique(seq, more[i]), LAMBDA s : PushAllUnique(s, more, i + 1))

\* one turn of the loop over rhs.position: the values of an epoch the
\* destination holds are inserted one by one; an epoch it does not hold is
\* pushed to the epoch list and its map inserted whole
MergePosition(acc, e, svnn) ==
    IF e \in DOMAIN acc.rec
    THEN [acc EXCEPT !.rec = Put(@, e, InsertAll(acc.rec[e], svnn))]
    ELSE [epoch |-> Append(acc.epoch, e), rec |-> Put(acc.rec, e, svnn)]

\* variant: the map of a new epoch is inserted only when the epoch list
\* lacks the epoch
MergeOther_guarded(acc, e, svnn) ==
    IF e \in DOMAIN acc.rec
    THEN [acc EXCEPT !.rec = Put(@, e, InsertAll(acc.rec[e], svnn))]
    ELSE IF Contains(acc.epoch, e) THEN acc
    ELSE [epoch |-> Append(acc.epoch, e), rec |-> Put(acc.rec, e, svnn)]

\* one turn of the loops over rhs.clock and rhs.velocities: as for the
\* positions, but a new epoch is pushed only when the epoch list lacks it
MergeOther(acc, e, svnn) ==
    IF e \in DOMAIN acc.rec
    THEN [acc EXCEPT !.rec = Put(@, e, InsertAll(acc.rec[e], svnn))]
    ELSE [epoch |-> PushUnique(acc.epoch, e), rec |-> Put(acc.rec, e, svnn)]

RECURSIVE MergePositions(_, _, _, _)
\* the loop over rhs.position; acc is [epoch, rec], keys the epochs of
\* rhs.position in ascending order, i the turn
MergePositions(acc, rhs_rec, keys, i) ==
    IF i > Len(keys) THEN acc
    ELSE With(MergePosition(acc, keys[i], rhs_rec[keys[i]]), LAMBDA a :
           MergePositions(a, rhs_rec, keys, i + 1))

RECURSIVE MergeOthers(_, _, _, _)
\* the loops over rhs.clock and rhs.velocities
MergeOthers(acc, rhs_rec, keys, i) ==
    IF i > Len(keys) THEN acc
    ELSE With(MergeOther(acc, keys[i], rhs_rec[keys[i]]), LAMBDA a :
           MergeOthers(a, rhs_rec, keys, i + 1))

\* the earlier start, as merge_mut adjusts it: each member of the pair on
\* its own
AdjustStart(mine, theirs) ==
    <<IF theirs[1] < mine[1] THEN theirs[1] ELSE mine[1],
      IF theirs[2] < mine[2] THEN theirs[2] ELSE mine[2]>>

\* variant: the time systems are compared before the agencies
MergeCheck_time_first(lhs, rhs) ==
    IF lhs.time_system # rhs.time_system THEN "TimeScale"
    ELSE IF lhs.agency # rhs.agency THEN "DataProvider"
    ELSE IF lhs.coord_system # rhs.coord_system THEN "CoordSystem"
    ELSE ""

\* the hard compatibility checks of merge_mut: "" when all pass
MergeCheck(lhs, rhs) ==
    IF lhs.agency # rhs.agency THEN "DataProvider"
    ELSE IF lhs.time_system # rhs.time_system THEN "TimeScale"
    ELSE IF lhs.coord_system # rhs.coord_system THEN "CoordSystem"
    ELSE ""

\* variant: the reconciliation keeps the shorter epoch interval
MergeHeader_finer(lhs, rhs) ==
    [lhs EXCEPT
       !.constellation = IF lhs.constellation # rhs.constellation THEN "Mixed" ELSE @,
       !.version = IF Version_gt(rhs.version, lhs.version) THEN rhs.version ELSE @,
       !.mjd_start = AdjustStart(@, rhs.mjd_start),
       !.week_counter = AdjustStart(@, rhs.week_counter),
       !.sv = PushAllUnique(@, rhs.sv, 1),
       !.epoch_interval = IF rhs.epoch_interval < @ THEN rhs.epoch_interval ELSE @]

\* the soft reconciliation of the header and of the vehicle list
MergeHeader(lhs, rhs) ==
    [lhs EXCEPT
       !.constellation = IF lhs.constellation # rhs.constellation THEN "Mixed" ELSE @,
       !.version = IF Version_gt(rhs.version, lhs.version) THEN rhs.version ELSE @,
       !.mjd_start = AdjustStart(@, rhs.mjd_start),
       !.week_counter = AdjustStart(@, rhs.week_counter),
       !.sv = PushAllUnique(@, rhs.sv, 1),
       !.epoch_interval = IF rhs.epoch_interval > @ THEN rhs.epoch_interval ELSE @]

\* the three loops over the records of rhs; the epoch list and one record
\* go through each loop
MergedPosition(lhs, rhs) ==
    MergePositions([epoch |-> lhs.epoch, rec |-> lhs.position],
                   rhs.position, Ascending(DOMAIN rhs.position), 1)

MergedClock(lhs, rhs, epoch) ==
    MergeOthers([epoch |-> epoch, rec |-> lhs.clock],
                rhs.clock, Ascending(DOMAIN rhs.clock), 1)

MergedVelocities(lhs, rhs, epoch) ==
    MergeOthers([epoch |-> epoch, rec |-> lhs.velocities],
                rhs.velocities, Ascending(DOMAIN rhs.velocities), 1)

\* the records and the epoch list after the three loops and the sort
MergeRecords(lhs, rhs) ==
    With(MergedPosition(lhs, rhs), LAMBDA p :
    With(MergedClock(lhs, rhs, p.epoch), LAMBDA c :
    With(MergedVelocities(lhs, rhs, c.epoch), LAMBDA v :
      [lhs EXCEPT !.position = p.rec, !.clock = c.rec, !.velocities = v.rec,
                  !.epoch = sort(v.epoch)])))

\* variant: the header is reconciled before the compatibility checks
merge_mut_reconcile_first(lhs, rhs) ==
    With(MergeHeader(lhs, rhs), LAMBDA h :
      IF MergeCheck(lhs, rhs) # "" THEN [err |-> MergeCheck(lhs, rhs), sp3 |-> h]
      ELSE [err |-> "", sp3 |-> MergeRecords(h, rhs)])

\* Merge::merge_mut: [err, sp3], sp3 the value of *self on return
merge_mut(lhs, rhs) ==
    IF MergeCheck(lhs, rhs) # "" THEN [err |-> MergeCheck(lhs, rhs), sp3 |-> lhs]
    ELSE With(MergeHeader(lhs, rhs), LAMBDA h :
           [err |-> "", sp3 |-> MergeRecords(h, rhs)])

\* Merge::merge: [ok, err, sp3]; sp3 is the dataset returned, held only
\* when ok
merge(lhs, rhs) ==
    With(merge_mut(lhs, rhs), LAMBDA s :
      IF s.err # "" THEN [ok |-> FALSE, err |-> s.err, sp3 |-> << >>]
      ELSE [ok |-> TRUE, err |-> "", sp3 |-> s.sp3])

(***************************************************************************)
(* SP3::to_file.  The output is held as the lines written so far and the   *)
(* text written since the last line feed.                                  *)
(***************************************************************************)

\* writer.write(text) of a text without line feed
write(w, text) == [w EXCEPT !.cur = @ \o text]

\* writer.write(text) of a text that ends with a line feed
writeln(w, text) == [w EXCEPT !.lines = Append(@, w.cur \o text), !.cur = <<>>]

\* the first header line: "#", version, data type, the first epoch as a UTC
\* date, the number of epochs, data used, coordinates, orbit type, agency
Header1Text(sp3) ==
    With(to_gregorian_utc(sp3.epoch[1]), LAMBDA g :
      <<"#">> \o Version_to_str(sp3.version) \o DataType_to_str(sp3.data_type)
      \o FmtZero(g[1], 4) \o <<" ">> \o FmtZero(g[2], 2) \o <<" ">> \o FmtZero(g[3], 2)
      \o <<" ">> \o FmtZero(g[4], 2) \o <<" ">> \o FmtZero(g[5], 2) \o <<" ">>
      \o FmtZero(g[6], 2) \o <<".">> \o FmtZero(g[7], 8) \o Repeat(" ", 7)
      \o Dec(Len(sp3.epoch)) \o <<" ">> \o DataUsed_to_str(sp3.data_used) \o <<" ">>
      \o sp3.coord_system \o <<" ">> \o OrbitType_to_str(sp3.orbit_type) \o <<" ">>
      \o sp3.agency)

\* the second header line
Header2Text(sp3) ==
    <<"#", "#", " ">> \o FmtZero(sp3.week_counter[1], 4) \o Repeat(" ", 5)
    \o FmtFloat(sp3.week_counter[2]) \o Repeat(" ", 6)
    \o FmtFix(sp3.epoch_interval, 6, 7) \o <<" ">> \o Dec(sp3.mjd_start[1])
    \o <<" ">> \o FmtFloat(sp3.mjd_start[2])

RECURSIVE WriteVehicles(_, _, _)
\* for sv in self.sv() { content += sv; if content.len() == 60 { write;
\* content = "+       " } }, from the i-th vehicle on; wc is <<writer, content>>
WriteVehicles(wc, svs, i) ==
    IF i > Len(svs) THEN wc
    ELSE With(wc[2] \o Sv_to_str(svs[i]), LAMBDA c :
           IF Len(c) = LineWidth
           THEN WriteVehicles(<<write(wc[1], c), <<"+">> \o Repeat(" ", 7)>>, svs, i + 1)
           ELSE WriteVehicles(<<wc[1], c>>, svs, i + 1))

RECURSIVE Fill(_, _)
\* n times " 00"
Fill(text, n) == IF n <= 0 THEN text ELSE Fill(text \o <<" ", "0", "0">>, n - 1)

\* if content.len() < 60 { loop { content += " 00"; if content.len() == 60
\* { break; } } write }: the loop ends only when the length can reach 60
PadVehicles(wc) ==
    IF Len(wc[2]) >= LineWidth THEN wc[1]
    ELSE IF (LineWidth - Len(wc[2])) % 3 # 0 THEN [wc[1] EXCEPT !.status = "diverges"]
    ELSE writeln(wc[1], Fill(wc[2], (LineWidth - Len(wc[2])) \div 3))

RECURSIVE WriteComments(_, _, _)
\* for comment in self.comments() { write("/* {comment}\n") }
WriteComments(w, comments, i) ==
    IF i > Len(comments) THEN w
    ELSE With(writeln(w, <<"/", "*", " ">> \o comments[i]), LAMBDA x :
           WriteComments(x, comments, i + 1))

RECURSIVE WriteFiller(_, _)
\* n times write("/* \n")
WriteFiller(w, n) ==
    IF n <= 0 THEN w
    ELSE With(writeln(w, <<"/", "*", " ">>), LAMBDA x : WriteFiller(x, n - 1))

\* for _ in 0..4 - self.comments().count(): the subtraction is on usize
PadComments(w, count, checks) ==
    IF count > 4 THEN [w EXCEPT !.status = IF checks THEN "panic" ELSE "diverges"]
    ELSE WriteFiller(w, 4 - count)

\* the epoch marker line of an instant
EpochText(t) ==
    With(to_gregorian_utc(t), LAMBDA g :
      <<"*", " ", " ">> \o FmtZero(g[1], 4) \o <<" ">> \o FmtZero(g[2], 2) \o <<" ">>
      \o FmtZero(g[3], 2) \o <<" ", " ">> \o FmtZero(g[4], 2) \o <<" ">>
      \o FmtZero(g[5], 2) \o <<" ">> \o FmtZero(g[6], 2) \o <<".">> \o Dec(g[7])
      \o <<" ">>)

\* the position line of a vehicle
PositionText(sv, pos) ==
    <<"P">> \o Sv_to_str(sv) \o <<" ">> \o FmtFix(pos[1], 6, 7) \o <<" ">>
    \o FmtFix(pos[2], 6, 7) \o <<" ">> \o FmtFix(pos[3], 6, 7)

\* the least vehicle of a non-empty set, in the key order of the maps
MinSv(S) == CHOOSE x \in S : \A y \in S : x = y \/ Sv_lt(x, y)

RECURSIVE WritePositions(_, _, _)
\* the position lines of the vehicles S of one epoch, in key order
WritePositions(w, svnn, S) ==
    IF S = {} THEN w
    ELSE With(MinSv(S), LAMBDA sv :
         With(writeln(w, PositionText(sv, svnn[sv])), LAMBDA x :
           WritePositions(x, svnn, S \ {sv})))

RECURSIVE WriteEpochs(_, _, _)
\* for epoch in self.epoch() { marker line; position lines of that epoch }
WriteEpochs(w, sp3, i) ==
    IF i > Len(sp3.epoch) THEN w
    ELSE With(writeln(w, EpochText(sp3.epoch[i])), LAMBDA x :
         With(IF sp3.epoch[i] \in DOMAIN sp3.position
              THEN WritePositions(x, sp3.position[sp3.epoch[i]],
                                  DOMAIN sp3.position[sp3.epoch[i]])
              ELSE x, LAMBDA y :
           WriteEpochs(y, sp3, i + 1)))

\* the steps of to_file after the header lines
WriteBody(w, sp3, checks) ==
    With(PadVehicles(WriteVehicles(
           <<write(w, <<"+">> \o Repeat(" ", 3) \o Dec(Len(sp3.sv)) \o Repeat(" ", 4)),
             <<>>>>, sp3.sv, 1)), LAMBDA v :
      IF v.status # "ok" THEN v
      ELSE With(PadComments(WriteComments(v, sp3.comments, 1),
                            Len(sp3.comments), checks), LAMBDA c :
             IF c.status # "ok" THEN c
             ELSE write(WriteEpochs(c, sp3, 1), <<"E", "O", "F">>)))

\* SP3::to_file: [status, lines, cur]; status is "ok", "panic" (the unwrap
\* of first_epoch on an empty epoch list, or a checked subtraction), or
\* "diverges" (a loop that does not end)
to_file(sp3, checks) ==
    IF sp3.epoch = <<>> THEN [status |-> "panic", lines |-> <<>>, cur |-> <<>>]
    ELSE WriteBody(writeln(writeln([status |-> "ok", lines |-> <<>>, cur |-> <<>>],
                                   Header1Text(sp3)), Header2Text(sp3)),
                   sp3, checks)

\* BufRead::lines on the file written: the text after the last line feed is
\* a line too
LinesOf(w) == IF w.cur = <<>> THEN w.lines ELSE Append(w.lines, w.cur)

(***************************************************************************)
(* SP3::interpolate.  The f64 weights and sums are held as exact           *)
(* fractions [n, d] in lowest terms, d > 0.                                *)
(***************************************************************************)

abs(x) == IF x < 0 THEN -x ELSE x

RECURSIVE Gcd(_, _)
Gcd(a, b) == IF b = 0 THEN a ELSE Gcd(b, a % b)

\* the fraction n / d in lowest terms
Frac(n, d) ==
    With(Gcd(abs(n), abs(d)), LAMBDA g :
      IF d < 0 THEN [n |-> (-n) \div g, d |-> (-d) \div g]
      ELSE [n |-> n \div g, d |-> d \div g])

\* li *= x
FracMul(r, x) == Frac(r.n * x, r.d)

\* li /= x
FracDiv(r, x) == Frac(r.n, r.d * x)

\* polynomials.k += data * li
FracAddMul(acc, data, r) ==
    With(Frac(data * r.n, r.d), LAMBDA t :
      With(Gcd(acc.d, t.d), LAMBDA g :
        Frac(acc.n * (t.d \div g) + t.n * (acc.d \div g), acc.d * (t.d \div g))))

\* self.sv_position() filtered on one vehicle and collected: its samples
\* [e, data] in the order of the BTreeMap, ascending epochs; indexes start
\* at 1 here, at 0 in the code
sv_data(sp3, sv) ==
    With(Ascending({e \in DOMAIN sp3.position : sv \in DOMAIN sp3.position[e]}),
         LAMBDA es : [i \in 1..Len(es) |-> [e |-> es[i], data |-> sp3.position[es[i]][sv]]])

\* (*e - epoch).abs() < self.epoch_interval, on whole seconds against an
\* interval in millionths of a second
Near(e, epoch, epoch_interval) ==
    \/ abs(e - epoch) < epoch_interval \div Micro
    \/ abs(e - epoch) = epoch_interval \div Micro /\ epoch_interval % Micro > 0

\* variant: the last sample near the target
center_last(data, epoch, epoch_interval) ==
    IF \A i \in DOMAIN data : ~Near(data[i].e, epoch, epoch_interval) THEN -1
    ELSE (CHOOSE i \in DOMAIN data :
            /\ Near(data[i].e, epoch, epoch_interval)
            /\ \A j \in DOMAIN data : j > i => ~Near(data[j].e, epoch, epoch_interval)) - 1

\* sv_data.iter().find(..) then .position(..): the index, from 0, of the
\* first sample near the target; -1 for None
center(data, epoch, epoch_interval) ==
    IF \A i \in DOMAIN data : ~Near(data[i].e, epoch, epoch_interval) THEN -1
    ELSE (CHOOSE i \in DOMAIN data :
            /\ Near(data[i].e, epoch, epoch_interval)
            /\ \A j \in DOMAIN data : j < i => ~Near(data[j].e, epoch, epoch_interval)) - 1

min_before(order) == IF order % 2 > 0 THEN (order + 1) \div 2 ELSE order \div 2

\* variant: one sample fewer after the centre
min_after_less(order) == order \div 2

min_after(order) == IF order % 2 > 0 THEN (order + 1) \div 2 ELSE order \div 2 + 1

\* the window of interpolate: [some, offset], offset counted from 0
Window(sp3, epoch, sv, order) ==
    With(sv_data(sp3, sv), LAMBDA data :
      With(center(data, epoch, sp3.epoch_interval), LAMBDA c :
        IF c < 0 THEN [some |-> FALSE, offset |-> 0]
        ELSE IF c < min_before(order) \/ Len(data) - c < min_after(order)
        THEN [some |-> FALSE, offset |-> 0]
        ELSE [some |-> TRUE, offset |-> c - min_before(order)]))

\* variant: the factors of a weight taken at the sample itself
LagrangeFactor_self(r, data, offset, i, j, epoch) ==
    FracDiv(FracMul(r, epoch - data[offset + i + 1].e),
            data[offset + i + 1].e - data[offset + j + 1].e)

\* li *= (epoch - sv_data[offset + j].0).to_seconds();
\* li /= (sv_data[offset + i].0 - sv_data[offset + j].0).to_seconds();
LagrangeFactor(r, data, offset, i, j, epoch) ==
    FracDiv(FracMul(r, epoch - data[offset + j + 1].e),
            data[offset + i + 1].e - data[offset + j + 1].e)

RECURSIVE li(_, _, _, _, _, _, _)
\* the loop for j in 0..order + 1 of one weight, from j on
li(r, data, offset, i, j, epoch, order) ==
    IF j > order THEN r
    ELSE IF j = i THEN li(r, data, offset, i, j + 1, epoch, order)
    ELSE With(LagrangeFactor(r, data, offset, i, j, epoch), LAMBDA r2 :
           li(r2, data, offset, i, j + 1, epoch, order))

RECURSIVE polynomials(_, _, _, _, _, _)
\* the loop for i in 0..order + 1 over the three sums, from i on
polynomials(acc, data, offset, i, epoch, order) ==
    IF i > order THEN acc
    ELSE With(li([n |-> 1, d |-> 1], data, offset, i, 0, epoch, order), LAMBDA w :
           With([k \in 1..3 |-> FracAddMul(acc[k], data[offset + i + 1].data[k], w)],
                LAMBDA acc2 : polynomials(acc2, data, offset, i + 1, epoch, order)))

\* SP3::interpolate: [some, val, fault], val the three sums; fault is
\* "panic" when sv_data[offset + i] is read past the end of the list
interpolate(sp3, epoch, sv, order) ==
    With(Window(sp3, epoch, sv, order), LAMBDA w :
      IF ~w.some THEN [some |-> FALSE, val |-> << >>, fault |-> "none"]
      ELSE IF w.offset + order + 1 > Len(sv_data(sp3, sv))
      THEN [some |-> FALSE, val |-> << >>, fault |-> "panic"]
      ELSE [some |-> TRUE,
            val |-> polynomials([k \in 1..3 |-> [n |-> 0, d |-> 1]], sv_data(sp3, sv),
                                w.offset, 0, epoch, order),
            fault |-> "none"])

(***************************************************************************)
(* Input lines, laid out as the SP3 grammar lays them out.                 *)
(***************************************************************************)

\* left-aligned in a field of w characters
PadRight(s, w) == s \o Repeat(" ", w - Len(s))

\* header line 1: "#", version, data type, start epoch, epoch count, data
\* used, coordinate system, orbit type, agency
H1Line(version, data_type, count, data_used, coord_system, orbit_type, agency) ==
    <<"#">> \o version \o data_type
    \o <<"2", "0", "1", "9", " ", "1", "0", " ", "2", "7", " ", " ", "0", " ", " ", "0",
         " ", " ", "0", ".", "0", "0", "0", "0", "0", "0", "0", "0">>
    \o FmtInt(count, 8) \o <<" ">> \o PadRight(data_used, 5) \o <<" ">>
    \o PadRight(coord_system, 5) \o <<" ">> \o PadRight(orbit_type, 3) \o <<" ">>
    \o PadLeft(agency, 4, " ")

\* header line 2: "##", week, seconds of week, epoch interval, MJD, day fraction
H2Line(week, wfrac, dt, mjd, mfrac) ==
    <<"#", "#", " ">> \o FmtInt(week, 4) \o <<" ">> \o FmtFix(wfrac, 15, 8) \o <<" ">>
    \o FmtFix(dt, 14, 8) \o <<" ">> \o FmtInt(mjd, 5) \o <<" ">> \o FmtFix(mfrac, 15, 13)

\* file descriptor line: "%c", constellation letter, time system
PcLine(c, ts) ==
    <<"%", "c", " ">> \o c \o <<" ", " ", "c", "c", " ">> \o ts
    \o <<" ", "c", "c", "c">>
    \o <<" ", "c", "c", "c", "c", " ", "c", "c", "c", "c">>
    \o <<" ", "c", "c", "c", "c", " ", "c", "c", "c", "c">>
    \o <<" ", "c", "c", "c", "c", "c", " ", "c", "c", "c", "c", "c">>
    \o <<" ", "c", "c", "c", "c", "c", " ", "c", "c", "c", "c", "c">>

\* epoch marker line; sec is the seconds field in millionths
EpochLine(y, m, d, hh, mm, sec) ==
    <<"*", " ", " ">> \o FmtInt(y, 4) \o <<" ">> \o FmtInt(m, 2) \o <<" ">>
    \o FmtInt(d, 2) \o <<" ">> \o FmtInt(hh, 2) \o <<" ">> \o FmtInt(mm, 2) \o <<" ">>
    \o FmtFix(sec, 11, 8)

\* the clock field of an entry without clock
AbsentClock == <<" ">> \o ClockSentinel \o <<"9", "9", "9", "9", "9", "9">>

\* position ("P") or velocity ("V") entry line with a clock field
EntryLine(kind, sv, vec, clk) ==
    <<kind>> \o Sv_to_str(sv) \o FmtFix(vec[1], 14, 6) \o FmtFix(vec[2], 14, 6)
    \o FmtFix(vec[3], 14, 6) \o clk

\* comment line
CommentLine(text) == <<"/", "*", " ">> \o text

EofLine == <<"E", "O", "F">>

(***************************************************************************)
(* The files of the model.                                                 *)
(***************************************************************************)

\* the longest body (lines after the header) of an input file
MaxBody == 2

G01 == [constellation |-> "GPS", prn |-> 1]

G02 == [constellation |-> "GPS", prn |-> 2]

TextIGS == <<"I", "G", "S">>

TextCOD == <<"C", "O", "D">>

TextIGS14 == <<"I", "G", "S", "1", "4">>

TextITRF == <<"I", "T", "R", "F">>

TextORBIT == <<"O", "R", "B", "I", "T">>

TextFIT == <<"F", "I", "T">>

TextGPS == <<"G", "P", "S">>

TextUTC == <<"U", "T", "C">>

\* the header of the crate's sample file: revision d, positions, IGS14, IGS,
\* week 2077, 300 s interval, MJD 58783, GPS vehicles on GPS time
BaseHeader ==
    << H1Line(<<"d">>, <<"P">>, 2, TextORBIT, TextIGS14, TextFIT, TextIGS),
       H2Line(2077, 0, 300 * Micro, 58783, 0),
       PcLine(<<"G">>, TextGPS) >>

\* epoch markers five minutes apart
MarkerE1 == EpochLine(2019, 10, 27, 0, 0, 0)

MarkerE2 == EpochLine(2019, 10, 27, 0, 5, 0)

\* entries: two values of vehicle G01 (with clock), one of G02 (no clock)
EntryP1 == EntryLine("P", G01, <<1500000, 2500000, 3500000>>, FmtFix(1250000, 14, 6))

EntryP2 == EntryLine("P", G01, <<2500000, 1500000, 3500000>>, FmtFix(2250000, 14, 6))

EntryP3 == EntryLine("P", G02, <<1500000, 2500000, 3500000>>, AbsentClock)

EntryV1 == EntryLine("V", G01, <<100000, 200000, 300000>>, FmtFix(10000, 14, 6))

EntryV2 == EntryLine("V", G01, <<200000, 100000, 300000>>, FmtFix(20000, 14, 6))

EntryV3 == EntryLine("V", G02, <<100000, 200000, 300000>>, AbsentClock)

BodyLines == {MarkerE1, MarkerE2, EntryP1, EntryP2, EntryV1}

RECURSIVE Bodies(_)
\* every sequence of at most n body lines
Bodies(n) ==
    IF n = 0 THEN {<<>>}
    ELSE Bodies(n - 1) \cup {Append(b, l) : b \in Bodies(n - 1), l \in BodyLines}

\* files with the base header and every body
BodyFiles == {BaseHeader \o b : b \in Bodies(MaxBody)}

\* first header lines: the base one, then one differing in revision, one in
\* coordinate system, one in agency
H1Lines ==
    << H1Line(<<"d">>, <<"P">>, 2, TextORBIT, TextIGS14, TextFIT, TextIGS),
       H1Line(<<"c">>, <<"P">>, 2, TextORBIT, TextIGS14, TextFIT, TextIGS),
       H1Line(<<"d">>, <<"P">>, 2, TextORBIT, TextITRF, TextFIT, TextIGS),
       H1Line(<<"d">>, <<"P">>, 2, TextORBIT, TextIGS14, TextFIT, TextCOD) >>

\* second header lines differing in week, seconds of week, epoch interval,
\* MJD and day fraction
H2Lines ==
    << H2Line(2077, 900 * Micro, 300 * Micro, 58783, 500000),
       H2Line(2078, 0, 900 * Micro, 58784, 250000),
       H2Line(2077, 0, 300 * Micro, 58783, 250000) >>

\* descriptor lines differing in constellation and time system
PcLines ==
    << PcLine(<<"G">>, TextGPS), PcLine(<<"R">>, TextGPS), PcLine(<<"G">>, TextUTC) >>

\* the headers of the model, as indices into the three lists: headers that
\* differ in one of agency, time system and coordinate system, in two of
\* them, and in none but in the fields a merge reconciles
HeaderChoices ==
    { <<1, 1, 1>>, <<2, 2, 2>>, <<2, 3, 1>>, <<1, 3, 2>>, <<1, 2, 2>>,
      <<3, 1, 1>>, <<4, 1, 1>>, <<1, 1, 3>>, <<4, 2, 3>>, <<3, 2, 3>> }

\* files with these headers and one body
HeaderFiles ==
    { <<H1Lines[h[1]], H2Lines[h[2]], PcLines[h[3]], MarkerE1, EntryP1>> :
        h \in HeaderChoices }

TextSample == <<"P", "C", "V", ":", "I", "G", "S", "1", "4">>

\* well-formed files of two epochs, each with the positions of two vehicles:
\* one with comments and the end marker, one with neither
SampleFiles ==
    { BaseHeader \o <<CommentLine(TextSample), MarkerE1, EntryP1, EntryP3,
                      MarkerE2, EntryP2, EntryP3, EofLine>>,
      BaseHeader \o <<MarkerE1, EntryP1, EntryP3, MarkerE2, EntryP2, EntryP3>> }

\* the files a run starts from
Files == BodyFiles \cup HeaderFiles \cup SampleFiles

\* the files read later in a run
ChainFiles ==
    { BaseHeader \o <<MarkerE1, EntryV2>>,
      BaseHeader \o <<MarkerE2, EntryP3>> }

(***************************************************************************)
(* The state machine: two files are read with SP3::from_file; the datasets *)
(* are merged by Merge::merge (which returns a new dataset) or by          *)
(* Merge::merge_mut (which changes the left one); the result of merge_mut  *)
(* is merged further with the dataset of another file.                     *)
(***************************************************************************)

VARIABLES
    files,  \* the two files read first, as sequences of lines
    self,   \* the left-hand dataset (the destination of merge_mut)
    rhs,    \* the right-hand dataset
    pre,    \* the left-hand dataset when the last merge or merge_mut was called
    err,    \* the error of the last call: "" for Ok, "none" before any call
    out,    \* what the last Merge::merge returned
    disk,   \* what SP3::to_file wrote
    third,  \* a third dataset
    assoc,  \* the merges of three datasets: [left, right]
    query,  \* the arguments of the last SP3::interpolate: [epoch, sv, order]
    estimate, \* what the last SP3::interpolate returned: [some, val]
    call,   \* a call of a function of version.rs or data_used.rs: [op, arg, ret]
    pc      \* "start", "half" (one file read), "ready" (both read), then
            \* "merged" (after merge_mut) or "returned" (after merge);
            \* "failed" when a file could not be read

vars == <<files, self, rhs, pre, err, out, disk, third, assoc, query, estimate, call, pc>>

NoResult == [ok |-> FALSE, err |-> "none", sp3 |-> << >>]

\* nothing written
NoDisk == [status |-> "none", lines |-> <<>>, cur |-> <<>>]

\* no dataset yet
NoSP3 == << >>

\* no merge of three datasets yet
NoAssoc == [left |-> NoResult, right |-> NoResult]

\* no interpolation asked
NoQuery == [epoch |-> 0, sv |-> << >>, order |-> 0]

NoEstimate == [some |-> FALSE, val |-> << >>, fault |-> "none"]

\* no function called
NoCall == [op |-> "none", arg |-> << >>, ret |-> << >>]

\* before anything is read or called, but for the arguments of a call
Idle ==
    /\ self = NoSP3
    /\ rhs = NoSP3
    /\ pre = NoSP3
    /\ err = "none"
    /\ out = NoResult
    /\ disk = NoDisk
    /\ third = NoSP3
    /\ assoc = NoAssoc
    /\ query = NoQuery
    /\ estimate = NoEstimate
    /\ pc = "start"

\* before anything is read
Blank ==
    /\ Idle
    /\ call = NoCall

InitOn(inputs) ==
    /\ files \in inputs \X inputs
    /\ Blank

Init == InitOn(Files)

\* let a = SP3::from_file(..)?; let b = SP3::from_file(..)?;
FromFile ==
    /\ pc \in {"start", "half"}
    /\ \E checks \in BOOLEAN :
       \E r \in {from_file_in(files[IF pc = "start" THEN 1 ELSE 2], checks)} :
         /\ err' = r.err
         /\ IF ~r.ok THEN pc' = "failed" /\ UNCHANGED <<self, rhs>>
            ELSE IF pc = "start" THEN pc' = "half" /\ self' = r.sp3 /\ UNCHANGED rhs
            ELSE pc' = "ready" /\ rhs' = r.sp3 /\ UNCHANGED self
    /\ UNCHANGED <<files, pre, out, disk, third, assoc, query, estimate, call>>

\* self.merge_mut(&rhs)
MergeMut ==
    /\ pc = "ready"
    /\ pre' = self
    /\ \E r \in {merge_mut(self, rhs)} : self' = r.sp3 /\ err' = r.err
    /\ pc' = "merged"
    /\ UNCHANGED <<files, rhs, out, disk, third, assoc, query, estimate, call>>

\* self.merge(&rhs)
Merge ==
    /\ pc = "ready"
    /\ pre' = self
    /\ \E r \in {merge(self, rhs)} : out' = r /\ err' = r.err
    /\ pc' = "returned"
    /\ UNCHANGED <<files, self, rhs, disk, third, assoc, query, estimate, call>>

\* after a successful merge_mut the caller reads another file and goes on
\* with its dataset as the right-hand one
NextRhs ==
    /\ pc = "merged"
    /\ err = ""
    /\ \E f \in ChainFiles : \E r \in {from_file(f)} :
         /\ r.ok
         /\ rhs' = r.sp3
    /\ pc' = "ready"
    /\ UNCHANGED <<files, self, pre, err, out, disk, third, assoc, query, estimate, call>>

\* self.to_file(..), on the dataset of the first file, by a build that
\* checks integer overflow or by one that does not
ToFile ==
    /\ pc = "half"
    /\ \E checks \in BOOLEAN : disk' = to_file(self, checks)
    /\ pc' = "written"
    /\ UNCHANGED <<files, self, rhs, pre, err, out, third, assoc, query, estimate, call>>

\* SP3::from_file(..) on the file written, when to_file returned
ReadBack ==
    /\ pc = "written"
    /\ disk.status = "ok"
    /\ \E r \in {from_file(LinesOf(disk))} : rhs' = r.sp3 /\ err' = r.err
    /\ pc' = "reread"
    /\ UNCHANGED <<files, self, pre, out, disk, third, assoc, query, estimate, call>>

Next == FromFile \/ MergeMut \/ Merge \/ NextRhs \/ ToFile \/ ReadBack

Spec == Init /\ [][Next]_vars

(***************************************************************************)
(* Three datasets merged in both groupings.                                *)
(***************************************************************************)

\* the third files: a velocity at the first epoch, a position at the
\* second, a marker alone, a position at the first epoch
ThirdFiles ==
    ChainFiles \cup { BaseHeader \o <<MarkerE2>>, BaseHeader \o <<MarkerE1, EntryP2>> }

InitAssoc ==
    /\ files \in BodyFiles \X BodyFiles \X ThirdFiles
    /\ Blank

\* let c = SP3::from_file(..)?;
FromThird ==
    /\ pc = "ready"
    /\ \E r \in {from_file(files[3])} :
         /\ err' = r.err
         /\ IF r.ok THEN pc' = "ready3" /\ third' = r.sp3
            ELSE pc' = "failed" /\ UNCHANGED third
    /\ UNCHANGED <<files, self, rhs, pre, out, disk, assoc, query, estimate, call>>

\* a.merge(&b)?.merge(&c)
MergeLeft ==
    /\ pc = "ready3"
    /\ \E ab \in {merge(self, rhs)} :
         assoc' = [assoc EXCEPT !.left = IF ab.ok THEN merge(ab.sp3, third) ELSE ab]
    /\ pc' = "left"
    /\ UNCHANGED <<files, self, rhs, pre, err, out, disk, third, query, estimate, call>>

\* a.merge(&b.merge(&c)?)
MergeRight ==
    /\ pc = "left"
    /\ \E bc \in {merge(rhs, third)} :
         assoc' = [assoc EXCEPT !.right = IF bc.ok THEN merge(self, bc.sp3) ELSE bc]
    /\ pc' = "both"
    /\ UNCHANGED <<files, self, rhs, pre, err, out, disk, third, query, estimate, call>>

NextAssoc == FromFile \/ FromThird \/ MergeLeft \/ MergeRight

SpecAssoc == InitAssoc /\ [][NextAssoc]_vars

(***************************************************************************)
(* Files for the parser and the writer alone.                              *)
(***************************************************************************)

\* the longest body of these files
MaxLines == 3

\* the most comment lines of a file
MaxComments == 6

\* full-width entries whose vector holds a zero: on one axis, on all three
EntryPz == EntryLine("P", G02, <<1500000, 0, 3500000>>, FmtFix(1250000, 14, 6))

EntryP0 == EntryLine("P", G02, <<0, 0, 0>>, FmtFix(1250000, 14, 6))

EntryVz == EntryLine("V", G01, <<100000, 200000, 0>>, FmtFix(10000, 14, 6))

\* entries that end after the third coordinate: 46 characters
ShortP == EntryLine("P", G02, <<2500000, 1500000, 3500000>>, <<>>)

ShortV == EntryLine("V", G02, <<200000, 100000, 300000>>, <<>>)

\* the first marker, five microseconds later
MarkerE1f == EpochLine(2019, 10, 27, 0, 0, 5)

ParseBodyLines ==
    {MarkerE1, MarkerE1f, MarkerE2, EntryP1, EntryPz, EntryP0, EntryVz, ShortP, ShortV}

RECURSIVE BodiesOver(_, _)
\* every sequence of at most n lines of a set
BodiesOver(lines, n) ==
    IF n = 0 THEN {<<>>}
    ELSE With(BodiesOver(lines, n - 1), LAMBDA B :
           B \cup {Append(b, l) : b \in B, l \in lines})

RECURSIVE CommentLines(_)
\* n comment lines
CommentLines(n) ==
    IF n = 0 THEN <<>> ELSE Append(CommentLines(n - 1), CommentLine(Dec(n)))

\* files with up to MaxComments comments ahead of one epoch
CommentFiles ==
    {BaseHeader \o CommentLines(n) \o <<MarkerE1, EntryP1, EofLine>> : n \in 0..MaxComments}

\* files with a comment line that holds the prefix alone, as to_file writes
\* them ("/* ") and without the blank: after a comment, alone, and below
\* the end marker
BlankCommentFiles ==
    { BaseHeader \o <<CommentLine(<<"a">>), CommentLine(<<>>), MarkerE1, EntryP1, EofLine>>,
      BaseHeader \o <<<<"/", "*">>, MarkerE1, EntryP1, EofLine>>,
      BaseHeader \o <<CommentLine(<<"a">>), MarkerE1, EntryP1, EofLine, CommentLine(<<>>)>> }

ParseFiles ==
    {BaseHeader \o b : b \in BodiesOver(ParseBodyLines, MaxLines)} \cup CommentFiles
    \cup BlankCommentFiles

\* an entry line that from_file skips: if position_entry(line) { if
\* line.len() < 60 { continue; } .. }, and the same for velocity_entry
ShortEntry(raw) ==
    /\ position_entry(trim(raw)) \/ velocity_entry(trim(raw))
    /\ Len(trim(raw)) < LineWidth

\* the lines of a file but for its short entries
WithoutShort(lines) == SelectSeq(lines, LAMBDA l : ~ShortEntry(l))

\* a file, and the same file without its short entries
InitParse ==
    /\ files \in {<<f, WithoutShort(f)>> : f \in ParseFiles}
    /\ Blank

NextParse == FromFile \/ ToFile

SpecParse == InitParse /\ [][NextParse]_vars

(***************************************************************************)
(* Files with many descriptor lines.                                       *)
(***************************************************************************)

\* the most descriptor (%c) lines of a file
MaxDescriptors == 257

\* descriptor lines: the first one of GPS vehicles on GPS time, the others
\* of Glonass vehicles on UTC
DescriptorLines(n) ==
    [i \in 1..n |-> IF i = 1 THEN PcLine(<<"G">>, TextGPS) ELSE PcLine(<<"R">>, TextUTC)]

\* files with no to three descriptor lines and with the three highest
\* counts
DescriptorFiles ==
    { <<H1Lines[1], H2Lines[3]>> \o DescriptorLines(n) \o <<MarkerE1, EntryP1, EofLine>> :
        n \in (0..3) \cup ((MaxDescriptors - 2)..MaxDescriptors) }

InitDescriptor == InitOn(DescriptorFiles)

NextDescriptor == FromFile \/ MergeMut

SpecDescriptor == InitDescriptor /\ [][NextDescriptor]_vars

(***************************************************************************)
(* Files with many vehicles, read and written.                             *)
(***************************************************************************)

\* the most vehicles of a file
MaxVehicles == 38

\* one epoch with the positions of the vehicles G01 to Gn
VehicleLines(n) ==
    <<MarkerE1>>
    \o [k \in 1..n |-> EntryLine("P", [constellation |-> "GPS", prn |-> k],
                                  <<1500000, 2500000, 3500000>>, AbsentClock)]

VehicleFiles == {BaseHeader \o VehicleLines(n) : n \in 0..MaxVehicles}

InitVehicles ==
    /\ files \in {<<f, f>> : f \in VehicleFiles}
    /\ Blank

NextVehicles == FromFile \/ ToFile

SpecVehicles == InitVehicles /\ [][NextVehicles]_vars

(***************************************************************************)
(* Calls on the "data used" descriptor.                                    *)
(***************************************************************************)

\* the categories of DataUsedUnitary
Categories ==
    {"UndifferencedPhase", "UndifferencedPhaseDerivative", "DualReceiverPhase",
     "DualReceiverPhaseDerivative", "DualReceiverDualPhase",
     "DualReceiverDualPhaseDerivative", "UndifferencedCode",
     "UndifferencedCodeDerivative", "DualReceiverCode", "DualReceiverCodeDerivative",
     "DualReceiverDualCode", "DualReceiverDualCodeDerivative", "ComplexMix", "Orbit"}

\* the token of every category, as written and in lower case, an unknown
\* token and the empty one
UnitTokens ==
    {DataUsedUnitary_to_str(u) : u \in Categories}
    \cup {to_ascii_lowercase(DataUsedUnitary_to_str(u)) : u \in {"ComplexMix", "Orbit"}}
    \cup {<<"x">>, << >>}

\* the tokens joined by '+'
PairTokens ==
    {a \o <<"+">> \o b :
        a, b \in {DataUsedUnitary_to_str(u) :
                    u \in {"UndifferencedPhase", "UndifferencedPhaseDerivative",
                           "UndifferencedCode", "UndifferencedCodeDerivative",
                           "ComplexMix"}} \cup {<<"x">>}}

\* tokens, alone and between blanks
DataUsedTokens ==
    UnitTokens \cup PairTokens \cup {<<" ">> \o t \o <<" ">> : t \in UnitTokens}

\* a token to parse
InitDataUsed ==
    /\ files = << >>
    /\ Idle
    /\ call \in {[op |-> "none", arg |-> <<t>>, ret |-> << >>] : t \in DataUsedTokens}

\* DataUsed::from_str(token)
DataUsedFromStr ==
    /\ call.op = "none"
    /\ call' = [call EXCEPT !.op = "from_str", !.ret = DataUsed_from_str(call.arg[1])]
    /\ UNCHANGED <<files, self, rhs, pre, err, out, disk, third, assoc, query, estimate, pc>>

\* DataUsed::default()
DataUsedDefault ==
    /\ call.op = "none"
    /\ call' = [call EXCEPT !.op = "default",
                             !.ret = [ok |-> TRUE, inner |-> DefaultDataUsed]]
    /\ UNCHANGED <<files, self, rhs, pre, err, out, disk, third, assoc, query, estimate, pc>>

\* a descriptor has been parsed or constructed
HasDescriptor == call.op \in {"from_str", "default"} /\ call.ret.ok

\* descriptor.complex_combination()
ComplexCombination ==
    /\ HasDescriptor
    /\ call' = [op |-> "complex_combination", arg |-> <<call.ret.inner>>,
                ret |-> complex_combination(call.ret.inner)]
    /\ UNCHANGED <<files, self, rhs, pre, err, out, disk, third, assoc, query, estimate, pc>>

\* descriptor.combination()
Combination ==
    /\ HasDescriptor
    /\ call' = [op |-> "combination", arg |-> <<call.ret.inner>>,
                ret |-> combination(call.ret.inner)]
    /\ UNCHANGED <<files, self, rhs, pre, err, out, disk, third, assoc, query, estimate, pc>>

\* descriptor.single()
Single ==
    /\ HasDescriptor
    /\ call' = [op |-> "single", arg |-> <<call.ret.inner>>,
                ret |-> single(call.ret.inner)]
    /\ UNCHANGED <<files, self, rhs, pre, err, out, disk, third, assoc, query, estimate, pc>>

NextDataUsed ==
    DataUsedFromStr \/ DataUsedDefault \/ ComplexCombination \/ Combination \/ Single

SpecDataUsed == InitDataUsed /\ [][NextDataUsed]_vars

(***************************************************************************)
(* Calls of the version arithmetic.                                        *)
(***************************************************************************)

\* a version and a u8
InitVersion ==
    /\ files = << >>
    /\ Idle
    /\ call \in {[op |-> "none", arg |-> <<v, n>>, ret |-> << >>] :
                   v \in {"C", "D"}, n \in 0..MaxU8}

\* version + n
VersionAdd ==
    /\ call.op = "none"
    /\ \E checks \in BOOLEAN :
         call' = [call EXCEPT !.op = "add", !.ret = Version_add(call.arg[1], call.arg[2], checks)]
    /\ UNCHANGED <<files, self, rhs, pre, err, out, disk, third, assoc, query, estimate, pc>>

\* version - n
VersionSub ==
    /\ call.op = "none"
    /\ \E checks \in BOOLEAN :
         call' = [call EXCEPT !.op = "sub", !.ret = Version_sub(call.arg[1], call.arg[2], checks)]
    /\ UNCHANGED <<files, self, rhs, pre, err, out, disk, third, assoc, query, estimate, pc>>

\* Version::from(u8::from(version))
VersionInto ==
    /\ call.op = "none"
    /\ call' = [call EXCEPT !.op = "into",
                             !.ret = [status |-> "ok",
                                      v |-> Version_from_u8(Version_to_u8(call.arg[1]))]]
    /\ UNCHANGED <<files, self, rhs, pre, err, out, disk, third, assoc, query, estimate, pc>>

NextVersion == VersionAdd \/ VersionSub \/ VersionInto

SpecVersion == InitVersion /\ [][NextVersion]_vars

(***************************************************************************)
(* Interpolation over parsed and merged datasets.                          *)
(***************************************************************************)

\* the highest interpolation order asked
MaxOrder == 4

\* the last sample of the longest series is sample number MaxSample, from 0
MaxSample == 5

\* the header of a file sampled every dt seconds
HeaderEvery(dt) ==
    << H1Line(<<"d">>, <<"P">>, 2, TextORBIT, TextIGS14, TextFIT, TextIGS),
       H2Line(2077, 0, dt * Micro, 58783, 0),
       PcLine(<<"G">>, TextGPS) >>

\* the position of a vehicle at sample k, in millionths of a km: no axis
\* is zero and the values follow no polynomial of low degree
PositionAt(sv, k) ==
    << 1000 * (1 + ((k * k * k + sv.prn) % 7)), 1000 * (2 + ((3 * k + sv.prn) % 5)),
       -1000 * (1 + ((k * k) % 4)) >>

RECURSIVE SeriesLines(_, _, _, _)
\* markers every step * 5 minutes from sample k to sample last, each with
\* the entries of the vehicles
SeriesLines(svs, k, last, step) ==
    IF k > last THEN <<>>
    ELSE <<EpochLine(2019, 10, 27, 0, 5 * k, 0)>>
         \o [i \in 1..Len(svs) |-> EntryLine("P", svs[i], PositionAt(svs[i], k), AbsentClock)]
         \o SeriesLines(svs, k + step, last, step)

\* a series of G01 every 5 minutes; a shorter one of G01 and G02; one of
\* G01 every 15 minutes, declared so; one of G02 alone
InterpFiles ==
    { HeaderEvery(300) \o SeriesLines(<<G01>>, 0, MaxSample, 1),
      HeaderEvery(300) \o SeriesLines(<<G01, G02>>, 1, 3, 1),
      HeaderEvery(900) \o SeriesLines(<<G01>>, 0, MaxSample, 3),
      HeaderEvery(300) \o SeriesLines(<<G02>>, 0, 2, 1) }

\* the target epochs: every 150 s from before the first sample to after the
\* last
Targets == {19 + 150 * m : m \in (-2)..(2 * MaxSample + 2)}

InitInterp == InitOn(InterpFiles)

\* self.interpolate(epoch, sv, order), on the first dataset as parsed or as
\* merged
Interpolate ==
    /\ pc \in {"ready", "merged"}
    /\ pc = "merged" => err = ""
    /\ \E epoch \in Targets, sv \in {G01, G02}, order \in 0..MaxOrder :
         /\ query' = [epoch |-> epoch, sv |-> sv, order |-> order]
         /\ estimate' = interpolate(self, epoch, sv, order)
    /\ pc' = "asked"
    /\ UNCHANGED <<files, self, rhs, pre, err, out, disk, third, assoc, call>>

NextInterp == FromFile \/ MergeMut \/ Interpolate

SpecInterp == InitInterp /\ [][NextInterp]_vars

(***************************************************************************)
(* Properties of the merge.  In a state with pc = "merged" or "returned",  *)
(* pre is the left-hand dataset the call received and rhs the right-hand   *)
(* one.                                                                    *)
(***************************************************************************)

\* a call of merge or merge_mut has just returned
Called == pc \in {"merged", "returned"}

\* merge has just returned a dataset
Returned == pc = "returned" /\ out.ok

\* the instants of a list
Range(seq) == {seq[i] : i \in DOMAIN seq}

StrictlyIncreasing(seq) == \A i \in 1..(Len(seq) - 1) : seq[i] < seq[i + 1]

\* the sample of a record at (epoch, vehicle): <<value>>, or <<>> for none
SampleAt(rec, e, sv) ==
    IF e \in DOMAIN rec THEN IF sv \in DOMAIN rec[e] THEN <<rec[e][sv]>> ELSE <<>>
    ELSE <<>>

\* the (epoch, vehicle) pairs at which a record holds a sample
Samples(rec) == UNION {{<<e, sv>> : sv \in DOMAIN rec[e]} : e \in DOMAIN rec}

\* the chronologically first of two (integer, fraction) pairs
Earlier(a, b) ==
    IF a[1] < b[1] \/ (a[1] = b[1] /\ a[2] <= b[2]) THEN a ELSE b

\* C1: when merge_mut(A, B) returns an error, A has every field as before
\* the call and B is unchanged; merge(A, B) then returns no dataset.
C1_FailedMergeChangesNothing ==
    [][ (pc = "ready" /\ err' # "")
          => /\ self' = self
             /\ rhs' = rhs
             /\ (pc' = "returned" => ~out'.ok /\ out'.sp3 = NoSP3) ]_vars

\* a merge_mut has failed on datasets whose headers differ in fields that a
\* successful merge reconciles
C1_Witness ==
    /\ pc = "merged"
    /\ err = "DataProvider"
    /\ pre.mjd_start # rhs.mjd_start
    /\ pre.epoch_interval # rhs.epoch_interval
    /\ self = pre

\* C2: in every dataset obtained by parsing and by successful merges, the
\* epoch list is strictly increasing, without duplicate.
C2_EpochListStrictlyIncreasing ==
    /\ (self # NoSP3 => StrictlyIncreasing(self.epoch))
    /\ (rhs # NoSP3 /\ pc # "reread" => StrictlyIncreasing(rhs.epoch))
    /\ (out.ok => StrictlyIncreasing(out.sp3.epoch))

\* C2, for the merge alone: merging datasets whose epoch lists are strictly
\* increasing gives a strictly increasing epoch list.
C2_MergeKeepsStrictlyIncreasing ==
    (Returned /\ StrictlyIncreasing(pre.epoch) /\ StrictlyIncreasing(rhs.epoch))
        => StrictlyIncreasing(out.sp3.epoch)

\* C3: the epoch list of merge(A, B), sorted, is the deduplicated union of
\* the epoch lists of A and B (stated for A and B whose own epoch lists are
\* strictly increasing).
C3_EpochUnion ==
    (Returned /\ StrictlyIncreasing(pre.epoch) /\ StrictlyIncreasing(rhs.epoch))
        => sort(out.sp3.epoch) = Ascending(Range(pre.epoch) \cup Range(rhs.epoch))

\* C5: merge(A, A) succeeds and returns a dataset equal to A.
C5_MergeIdempotent ==
    (pc = "returned" /\ pre = rhs) => (out.ok /\ out.sp3 = pre)

\* C5, for the datasets whose epoch list is strictly increasing
C5_MergeIdempotentOnOrdered ==
    (pc = "returned" /\ pre = rhs /\ StrictlyIncreasing(pre.epoch))
        => (out.ok /\ out.sp3 = pre)

\* C6: merge and merge_mut fail exactly when agency, time system or
\* coordinate system differ; the error is the agency one whenever the
\* agencies differ, the time-scale one when the agencies match and the time
\* systems differ, the coordinate one when only the coordinate systems
\* differ; when all three match the call succeeds.
C6_MergeErrorNamesMismatch ==
    Called =>
      /\ (pre.agency # rhs.agency => err = "DataProvider")
      /\ (pre.agency = rhs.agency /\ pre.time_system # rhs.time_system
            => err = "TimeScale")
      /\ (pre.agency = rhs.agency /\ pre.time_system = rhs.time_system
            /\ pre.coord_system # rhs.coord_system => err = "CoordSystem")
      /\ (pre.agency = rhs.agency /\ pre.time_system = rhs.time_system
            /\ pre.coord_system = rhs.coord_system => err = "")
      /\ (pc = "returned" => (out.ok <=> err = ""))

\* a merge has failed with the agency error on datasets that differ in time
\* system as well
C6_Witness ==
    /\ pc = "returned"
    /\ err = "DataProvider"
    /\ pre.time_system # rhs.time_system
    /\ ~out.ok

\* C7: after a successful merge(A, B), each of the position, clock and
\* velocity records holds, at every (epoch, vehicle), B's value when B has a
\* sample there, otherwise A's value when A has one, otherwise no sample.
C7_RightHandWins ==
    Returned =>
      \A k \in {"position", "clock", "velocities"} :
        \A p \in Samples(pre[k]) \cup Samples(rhs[k]) \cup Samples(out.sp3[k]) :
          SampleAt(out.sp3[k], p[1], p[2]) =
            IF SampleAt(rhs[k], p[1], p[2]) # <<>> THEN SampleAt(rhs[k], p[1], p[2])
            ELSE SampleAt(pre[k], p[1], p[2])

\* a merge has succeeded on datasets that hold different positions of one
\* vehicle at one epoch, the left one holding a sample the right one lacks
C7_Witness ==
    /\ Returned
    /\ \E p \in Samples(pre.position) \cap Samples(rhs.position) :
         SampleAt(pre.position, p[1], p[2]) # SampleAt(rhs.position, p[1], p[2])
    /\ Samples(pre.velocities) \ Samples(rhs.velocities) # {}

\* C8: after a successful merge(A, B), every clock-rate sample of B is in
\* the result's clock-rate record with B's value, and every epoch of B's
\* clock-rate record is in the result's epoch list.
C8_ClockRateMerged ==
    Returned =>
      \A p \in Samples(rhs.clock_rate) :
        /\ SampleAt(out.sp3.clock_rate, p[1], p[2]) = SampleAt(rhs.clock_rate, p[1], p[2])
        /\ p[1] \in Range(out.sp3.epoch)

\* C9: after a successful merge(A, B), the MJD start of the result is the
\* chronologically first of the two (integer, fraction) pairs, and so is
\* the week counter.
C9_EarlierStart ==
    Returned =>
      /\ out.sp3.mjd_start = Earlier(pre.mjd_start, rhs.mjd_start)
      /\ out.sp3.week_counter = Earlier(pre.week_counter, rhs.week_counter)

\* C10: after a successful merge(A, B), the constellation is Mixed when the
\* constellations differ and A's otherwise, the version is the greater of
\* the two (C < D), the epoch interval the longer of the two.
C10_SoftReconciliation ==
    Returned =>
      /\ out.sp3.constellation =
           IF pre.constellation # rhs.constellation THEN "Mixed" ELSE pre.constellation
      /\ out.sp3.version = IF "D" \in {pre.version, rhs.version} THEN "D" ELSE "C"
      /\ out.sp3.epoch_interval =
           IF pre.epoch_interval >= rhs.epoch_interval
           THEN pre.epoch_interval ELSE rhs.epoch_interval

\* a merge has succeeded on datasets that differ in constellation, in
\* version (the right one newer) and in epoch interval (the right one longer)
C10_Witness ==
    /\ Returned
    /\ pre.constellation # rhs.constellation
    /\ pre.version = "C" /\ rhs.version = "D"
    /\ rhs.epoch_interval > pre.epoch_interval

\* C11: for compatible A, B, C, merge(merge(A, B), C) and
\* merge(A, merge(B, C)) have the same set of epochs, the same set of
\* vehicles and, for each record kind, the same (epoch, vehicle) keys.
C11_AssociativeCoverage ==
    pc = "both" =>
      /\ assoc.left.ok /\ assoc.right.ok
      /\ Range(assoc.left.sp3.epoch) = Range(assoc.right.sp3.epoch)
      /\ Range(assoc.left.sp3.sv) = Range(assoc.right.sp3.sv)
      /\ \A k \in {"position", "clock", "velocities", "clock_rate"} :
           Samples(assoc.left.sp3[k]) = Samples(assoc.right.sp3[k])

\* both groupings have been merged from three datasets that each hold
\* something the two others lack: a position, a velocity, an epoch
C11_Witness ==
    /\ pc = "both"
    /\ assoc.left.ok /\ assoc.right.ok
    /\ Samples(self.position) \ (Samples(rhs.position) \cup Samples(third.position)) # {}
    /\ Samples(rhs.velocities) \ (Samples(self.velocities) \cup Samples(third.velocities)) # {}
    /\ Range(third.epoch) \ (Range(self.epoch) \cup Range(rhs.epoch)) # {}

(***************************************************************************)
(* Properties of the parser, stated on the lines of the file read.         *)
(***************************************************************************)

\* the locals of from_file when it reaches line i of a file
LocalsBefore(lines, i) == ParseLines(ParserInit(TRUE), SubSeq(lines, 1, i - 1), 1)

\* the lines of a file that are well-formed entries of a record kind
FullEntries(lines, kind) ==
    {i \in DOMAIN lines :
        /\ IF kind = "position" THEN position_entry(trim(lines[i]))
           ELSE velocity_entry(trim(lines[i]))
        /\ Len(trim(lines[i])) >= LineWidth
        /\ Entry_from_str(trim(lines[i])).err = ""}

\* the vector of the entry at line i
VectorAt(lines, i) == Entry_from_str(trim(lines[i])).vec

\* the (epoch, vehicle) under which from_file files the entry at line i
KeyAt(lines, i) == <<LocalsBefore(lines, i).epoch, Entry_from_str(trim(lines[i])).sv>>

\* C12: a well-formed position or velocity entry is stored under the
\* current epoch and its vehicle if and only if its vector is not (0,0,0):
\* an all-zero vector is never stored, a vector with at least one non-zero
\* axis always is.
C12_VectorStoredIffPresent ==
    pc = "half" =>
      \A kind \in {"position", "velocities"} : \A i \in FullEntries(files[1], kind) :
        /\ VectorAt(files[1], i) # <<0, 0, 0>> =>
              KeyAt(files[1], i) \in Samples(self[kind])
        /\ (\A j \in FullEntries(files[1], kind) :
               KeyAt(files[1], j) = KeyAt(files[1], i) => VectorAt(files[1], j) = <<0, 0, 0>>)
             => KeyAt(files[1], i) \notin Samples(self[kind])

\* what from_file does: an entry is stored when none of its axes is zero,
\* and only then
C12_StoredIffNoZeroAxis ==
    pc = "half" =>
      \A kind \in {"position", "velocities"} : \A i \in FullEntries(files[1], kind) :
        /\ VectorPresent(VectorAt(files[1], i)) =>
              KeyAt(files[1], i) \in Samples(self[kind])
        /\ (\A j \in FullEntries(files[1], kind) :
               KeyAt(files[1], j) = KeyAt(files[1], i) => ~VectorPresent(VectorAt(files[1], j)))
             => KeyAt(files[1], i) \notin Samples(self[kind])

\* C17: a position or velocity entry line shorter than 60 characters is
\* skipped silently: no error, and the vehicle list, the epoch list, the
\* current epoch and the four records are what they are without the line;
\* parsing goes on with the next line.  So also for an entry with three
\* coordinates and no clock field.
C17_ShortEntrySkipped ==
    files[1] # files[2] =>
      /\ pc # "failed"
      /\ pc = "ready" => err = "" /\ self = rhs

\* a file with a short entry and the same file without it have been read,
\* and a full entry was stored
C17_Witness ==
    /\ pc = "ready"
    /\ files[1] # files[2]
    /\ \E i \in DOMAIN files[1] : ShortEntry(files[1][i]) /\ i < Len(files[1])
    /\ Samples(self.position) # {}

\* the index of the last epoch marker above line i of a file; 0 when none
LastMarker(lines, i) ==
    IF \A j \in 1..(i - 1) : ~new_epoch(trim(lines[j])) THEN 0
    ELSE CHOOSE j \in 1..(i - 1) :
           /\ new_epoch(trim(lines[j]))
           /\ \A k \in (j + 1)..(i - 1) : ~new_epoch(trim(lines[k]))

\* the instants that the epoch markers of a file give
MarkerInstants(lines, time_system) ==
    {parse_epoch(SliceFrom(trim(lines[j]), 3), time_system).t :
        j \in {k \in DOMAIN lines : new_epoch(trim(lines[k]))}}

\* C18: every sample stored by the parser is keyed by the instant of the
\* last epoch marker above its entry line; no sample is stored under an
\* instant that a later marker, or no marker, produced.
C18_KeyedByLastMarker ==
    pc = "half" =>
      \A kind \in {"position", "clock", "velocities", "clock_rate"} :
        \A s \in Samples(self[kind]) :
          \E i \in FullEntries(files[1],
                                IF kind \in {"position", "clock"} THEN "position"
                                ELSE "velocities") :
            /\ Entry_from_str(trim(files[1][i])).sv = s[2]
            /\ LastMarker(files[1], i) # 0
            /\ parse_epoch(SliceFrom(trim(files[1][LastMarker(files[1], i)]), 3),
                           self.time_system).t = s[1]

\* C18 for the entries below a marker: they are keyed by the last marker
\* above them
C18_KeyedByLastMarkerIfAny ==
    pc = "half" =>
      \A kind \in {"position", "velocities"} : \A i \in FullEntries(files[1], kind) :
        LastMarker(files[1], i) # 0 =>
          KeyAt(files[1], i)[1] =
            parse_epoch(SliceFrom(trim(files[1][LastMarker(files[1], i)]), 3),
                        self.time_system).t

\* the instants that key a sample of a dataset
RecordInstants(sp3) ==
    (DOMAIN sp3.position) \cup (DOMAIN sp3.clock) \cup (DOMAIN sp3.velocities)
    \cup (DOMAIN sp3.clock_rate)

\* C19: in every dataset obtained by parsing and by successful merges, the
\* epoch list holds exactly the instants at which a record exists: every
\* key of the four records is in the list and every member of the list
\* keys a sample.
C19_EpochListIsRecordInstants ==
    /\ self # NoSP3 => Range(self.epoch) = RecordInstants(self)
    /\ out.ok => Range(out.sp3.epoch) = RecordInstants(out.sp3)

\* C19 for the merge alone: merging datasets whose epoch lists hold exactly
\* their record instants gives such a dataset
C19_MergeKeepsRecordInstants ==
    /\ Returned
    /\ Range(pre.epoch) = RecordInstants(pre)
    /\ Range(rhs.epoch) = RecordInstants(rhs)
    => Range(out.sp3.epoch) = RecordInstants(out.sp3)

\* the comment lines of a file written
CommentLinesOf(lines) == SelectSeq(lines, LAMBDA l : sp3_comment(l))

\* the four comment lines expected for a list of comments
FourCommentLines(comments) ==
    [i \in 1..4 |-> IF i <= Len(comments) THEN CommentLine(comments[i]) ELSE CommentLine(<<>>)]

\* C20: whatever the number of stored comments, the writer returns and the
\* file holds exactly four comment lines: the stored comments, then blank
\* ones up to four.
C20_FourCommentLinesAlways ==
    pc = "written" /\ self.epoch # <<>> =>
      /\ disk.status = "ok"
      /\ CommentLinesOf(LinesOf(disk)) = FourCommentLines(self.comments)

\* C20 for datasets of at most four comments
C20_FourCommentLinesUpToFour ==
    pc = "written" /\ self.epoch # <<>> /\ Len(self.comments) <= 4 =>
      /\ disk.status = "ok"
      /\ CommentLinesOf(LinesOf(disk)) = FourCommentLines(self.comments)

\* the index of the end marker of a file; one past the last line when
\* there is none
EndMarker(lines) ==
    IF \A i \in DOMAIN lines : ~end_of_file(trim(lines[i])) THEN Len(lines) + 1
    ELSE CHOOSE i \in DOMAIN lines :
           /\ end_of_file(trim(lines[i]))
           /\ \A j \in 1..(i - 1) : ~end_of_file(trim(lines[j]))

\* the text behind the prefix "/* " of a comment line; empty for a line
\* that holds the prefix alone
CommentText(raw) == IF Len(trim(raw)) < 3 THEN <<>> ELSE SliceFrom(trim(raw), 3)

RECURSIVE CommentsRead(_, _)
\* the texts of the comment lines among the first n lines of a file, in
\* order
CommentsRead(lines, n) ==
    IF n = 0 THEN <<>>
    ELSE IF sp3_comment(trim(lines[n]))
    THEN Append(CommentsRead(lines, n - 1), CommentText(lines[n]))
    ELSE CommentsRead(lines, n - 1)

\* C21: after parsing, the comment list holds, in input order, the text
\* behind the prefix of every comment line above the end marker; a comment
\* line with the prefix alone gives an empty comment and does not make the
\* parse fail.
C21_CommentsAsRead ==
    pc # "start" =>
      /\ self # NoSP3
      /\ self.comments = CommentsRead(files[1], EndMarker(files[1]) - 1)

\* C21 for files whose comment lines all hold text
C21_CommentsWithText ==
    /\ pc # "start"
    /\ \A i \in 1..(EndMarker(files[1]) - 1) :
         sp3_comment(trim(files[1][i])) => Len(trim(files[1][i])) >= 3
    => /\ self # NoSP3
       /\ self.comments = CommentsRead(files[1], EndMarker(files[1]) - 1)

\* the descriptor lines of a file above its end marker, by index
Descriptors(lines) ==
    {i \in 1..(EndMarker(lines) - 1) : file_descriptor(trim(lines[i]))}

\* C22: for any number of descriptor (%c) lines, above 255 too, the
\* constellation and the time scale of the dataset are those of the first
\* such line; the later ones change no field and raise no error or fault.
C22_FirstDescriptorDecides ==
    pc # "start" /\ Descriptors(files[1]) # {} =>
      /\ self # NoSP3
      /\ self.constellation =
           Constellation_from_str(trim(Slice(trim(files[1][MinOf(Descriptors(files[1]))]), 3, 4)))
      /\ self.time_system =
           TimeScale_from_str(trim(Slice(trim(files[1][MinOf(Descriptors(files[1]))]), 9, 12)))

\* C22 for files of at most 255 descriptor lines
C22_FirstDescriptorUpTo255 ==
    pc # "start" /\ Descriptors(files[1]) # {}
    /\ Cardinality(Descriptors(files[1])) <= 255 =>
      /\ self # NoSP3
      /\ self.constellation =
           Constellation_from_str(trim(Slice(trim(files[1][MinOf(Descriptors(files[1]))]), 3, 4)))
      /\ self.time_system =
           TimeScale_from_str(trim(Slice(trim(files[1][MinOf(Descriptors(files[1]))]), 9, 12)))

\* the epoch markers of a file, by index
Markers(lines) == {i \in DOMAIN lines : new_epoch(trim(lines[i]))}

\* the number of epoch markers among the first i lines of a file
MarkerRank(lines, i) == Cardinality({j \in Markers(lines) : j <= i})

\* two marker lines that differ in the digits behind the decimal point of
\* the seconds only
DifferInFraction(a, b) ==
    /\ Len(a) = Len(b) /\ Len(a) >= 30
    /\ SubSeq(a, 1, 22) = SubSeq(b, 1, 22)
    /\ SubSeq(a, 23, Len(a)) # SubSeq(b, 23, Len(b))

\* C23: the instant of an epoch marker depends on all its fields, the
\* fraction of the second too: two markers that differ only in a non-zero
\* fraction give two different instants in the epoch list.
C23_FractionReachesInstant ==
    pc = "half" =>
      \A i, j \in Markers(files[1]) :
        DifferInFraction(trim(files[1][i]), trim(files[1][j])) =>
          self.epoch[MarkerRank(files[1], i)] # self.epoch[MarkerRank(files[1], j)]

\* C23 for the six other fields: markers that differ before the decimal
\* point give different instants
C23_WholeFieldsReachInstant ==
    pc = "half" =>
      \A i, j \in Markers(files[1]) :
        SubSeq(trim(files[1][i]), 1, 22) # SubSeq(trim(files[1][j]), 1, 22) =>
          self.epoch[MarkerRank(files[1], i)] # self.epoch[MarkerRank(files[1], j)]

\* C24: version arithmetic is total and saturating: for every version v
\* and every u8 n, v + n and v - n return a version without overflow or
\* underflow; v + n is D whenever number(v) + n >= 4, v - n is C whenever
\* number(v) - n <= 3; a version turned into its number and back is the
\* same version.
C24_VersionArithmeticSaturates ==
    /\ call.op \in {"add", "sub", "into"} => call.ret.status = "ok"
    /\ call.op = "add" /\ Version_to_u8(call.arg[1]) + call.arg[2] >= 4 => call.ret.v = "D"
    /\ call.op = "sub" /\ Version_to_u8(call.arg[1]) - call.arg[2] <= 3 => call.ret.v = "C"
    /\ call.op = "into" => call.ret.v = call.arg[1]

\* C24 for the sums and differences that fit a u8
C24_SaturatesWithinU8 ==
    /\ call.op = "add" /\ Version_to_u8(call.arg[1]) + call.arg[2] <= MaxU8
         => call.ret.status = "ok"
            /\ (Version_to_u8(call.arg[1]) + call.arg[2] >= 4 => call.ret.v = "D")
    /\ call.op = "sub" /\ Version_to_u8(call.arg[1]) - call.arg[2] >= 0
         => call.ret.status = "ok"
            /\ (Version_to_u8(call.arg[1]) - call.arg[2] <= 3 => call.ret.v = "C")
    /\ call.op = "into" => call.ret.status = "ok" /\ call.ret.v = call.arg[1]

\* the vehicle-list lines of a file written
VehicleLinesOf(lines) == SelectSeq(lines, LAMBDA l : starts_with(l, <<"+">>))

\* how many times a vehicle occurs in the vehicle-list lines
Emitted(lines, sv) ==
    Cardinality({<<i, j>> \in (DOMAIN lines) \X (1..(2 * LineWidth)) :
                   /\ starts_with(lines[i], <<"+">>)
                   /\ j + 2 <= Len(lines[i])
                   /\ SubSeq(lines[i], j, j + 2) = Sv_to_str(sv)})

\* C25: for every number of vehicles the vehicle-list step of the writer
\* ends, every vehicle of the dataset is emitted exactly once, and every
\* vehicle-list line is 60 characters long and ends with a line feed.
C25_VehicleListWritten ==
    pc = "written" =>
      /\ disk.status = "ok"
      /\ \A i \in DOMAIN VehicleLinesOf(disk.lines) :
           Len(VehicleLinesOf(disk.lines)[i]) = LineWidth
      /\ \A k \in DOMAIN self.sv : Emitted(disk.lines, self.sv[k]) = 1

\* what the writer does for fewer than 20 vehicles: it ends and emits every
\* vehicle once, on one line
C25_FewVehiclesEmittedOnce ==
    pc = "written" /\ Len(self.sv) < 20 =>
      /\ disk.status = "ok"
      /\ Len(VehicleLinesOf(disk.lines)) = 1
      /\ \A k \in DOMAIN self.sv : Emitted(disk.lines, self.sv[k]) = 1

(***************************************************************************)
(* Properties of the interpolation.  In a state with pc = "asked",         *)
(* estimate is what interpolate returned on self for the arguments in      *)
(* query.                                                                  *)
(***************************************************************************)

\* the epoch interval in whole seconds
IntervalSeconds(sp3) == sp3.epoch_interval \div Micro

\* the vehicle has samples, spaced by the epoch interval exactly
Regular(sp3, sv) ==
    /\ sv_data(sp3, sv) # <<>>
    /\ sp3.epoch_interval % Micro = 0
    /\ \A i \in 1..(Len(sv_data(sp3, sv)) - 1) :
         sv_data(sp3, sv)[i + 1].e - sv_data(sp3, sv)[i].e = IntervalSeconds(sp3)

\* epoch of the first and of the last sample of a vehicle
FirstSample(sp3, sv) == sv_data(sp3, sv)[1].e

LastSample(sp3, sv) == sv_data(sp3, sv)[Len(sv_data(sp3, sv))].e

\* C13: for a vehicle sampled regularly at t_0 .. t_(L-1), spacing dt equal
\* to the epoch interval, and any order N, interpolate gives no estimate
\* for a target earlier than t_0 + (N+1)*dt/2 or later than
\* t_(L-1) - (N+1)*dt/2, and gives one for every target strictly inside
\* that margin: the margin is the same at both ends.
C13_SymmetricEdgeMargin ==
    pc = "asked" /\ Regular(self, query.sv) =>
      LET t0 == FirstSample(self, query.sv)
          tl == LastSample(self, query.sv)
          margin == (query.order + 1) * IntervalSeconds(self)
      IN  /\ 2 * (query.epoch - t0) < margin \/ 2 * (tl - query.epoch) < margin
               => ~estimate.some
          /\ 2 * (query.epoch - t0) > margin /\ 2 * (tl - query.epoch) > margin
               => estimate.some

\* the half of C13 that holds: strictly inside the margin there is an
\* estimate
C13_EstimateInsideMargin ==
    pc = "asked" /\ Regular(self, query.sv) =>
      LET t0 == FirstSample(self, query.sv)
          tl == LastSample(self, query.sv)
          margin == (query.order + 1) * IntervalSeconds(self)
      IN  2 * (query.epoch - t0) > margin /\ 2 * (tl - query.epoch) > margin
            => estimate.some

\* the samples of the vehicle asked, by index from 1, that lie nearer to the
\* target than the epoch interval
Candidates ==
    {i \in DOMAIN sv_data(self, query.sv) :
        Near(sv_data(self, query.sv)[i].e, query.epoch, self.epoch_interval)}

\* whether the sample at index c from 0 leaves the margins of order N in a
\* list of L samples
WithinMargins(c, L, N) ==
    IF N % 2 = 1 THEN c >= (N + 1) \div 2 /\ L - c >= (N + 1) \div 2
    ELSE c >= N \div 2 /\ L - c >= N \div 2 + 1

C15_TargetInsideWindow ==
    pc = "asked" /\ estimate.some =>
      LET data == sv_data(self, query.sv)
          w == Window(self, query.epoch, query.sv, query.order)
      IN  /\ data[w.offset + 1].e <= query.epoch
          /\ query.epoch <= data[w.offset + query.order + 1].e

\* C15 on regular series and odd orders at least 3, targets no later than
\* the last sample: the target is inside the window
C15_InsideWindowOddRegular ==
    /\ pc = "asked" /\ estimate.some
    /\ Regular(self, query.sv) /\ query.order % 2 = 1 /\ query.order >= 3
    /\ query.epoch <= LastSample(self, query.sv)
    => LET data == sv_data(self, query.sv)
           w == Window(self, query.epoch, query.sv, query.order)
       IN  /\ data[w.offset + 1].e <= query.epoch
           /\ query.epoch <= data[w.offset + query.order + 1].e

\* C16: on a regularly sampled vehicle, when interpolate is asked at the
\* epoch of a stored sample and returns an estimate, the estimate equals
\* the stored position on the three axes (the weights are 1 for that
\* sample and 0 for the others).
C16_ExactAtSamples ==
    /\ pc = "asked" /\ estimate.some /\ Regular(self, query.sv)
    /\ query.epoch \in DOMAIN self.position
    /\ query.sv \in DOMAIN self.position[query.epoch]
    => \A k \in 1..3 :
         estimate.val[k] = [n |-> self.position[query.epoch][query.sv][k], d |-> 1]

\* an estimate of order 2 or more at the epoch of a stored sample
C16_Witness ==
    /\ pc = "asked" /\ estimate.some /\ Regular(self, query.sv)
    /\ query.order >= 2
    /\ query.epoch \in DOMAIN self.position
    /\ query.sv \in DOMAIN self.position[query.epoch]

\* C26: whenever interpolate passes its feasibility checks, for every order
\* from 0 on, the window indices offset .. offset + N are all indices of
\* the vehicle's sample list and the epochs of the window are pairwise
\* distinct: nothing is read out of range, no time difference is zero.
C26_WindowInRange ==
    pc = "asked" =>
      /\ estimate.fault = "none"
      /\ Window(self, query.epoch, query.sv, query.order).some =>
           LET data == sv_data(self, query.sv)
               offset == Window(self, query.epoch, query.sv, query.order).offset
           IN  /\ offset >= 0
               /\ offset + query.order < Len(data)
               /\ \A i, j \in 0..query.order :
                    i # j => data[offset + i + 1].e # data[offset + j + 1].e

\* an estimate from a window that ends with the last sample of the vehicle,
\* and one of order 0
C26_Witness ==
    /\ pc = "asked" /\ estimate.some
    /\ query.order \in {0, 3}
    /\ Window(self, query.epoch, query.sv, query.order).offset + query.order + 1
         = Len(sv_data(self, query.sv))

\* C27: for every data-used descriptor complex_combination() returns true
\* exactly when the descriptor is the single "mixed" marker and never
\* faults, the default (empty) descriptor included; single() and
\* combination() answer by the number of categories (one, two).
C27_MixedMarkerRecognised ==
    /\ call.op = "complex_combination" =>
         /\ call.ret.status = "ok"
         /\ call.ret.v <=> (call.arg[1] = <<"ComplexMix">>)
    /\ call.op = "single" =>
         /\ call.ret.status = "ok"
         /\ call.ret.some <=> (Len(call.arg[1]) = 1)
         /\ call.ret.some => call.ret.v = call.arg[1]
    /\ call.op = "combination" =>
         /\ call.ret.status = "ok"
         /\ call.ret.some <=> (Len(call.arg[1]) = 2)
         /\ call.ret.some => call.ret.v = call.arg[1]

\* what holds: single() and combination() answer by the number of
\* categories; complex_combination() faults on the empty descriptor and on
\* that one only, and answers false on every other, the mixed marker
\* included
C27_NeverRecognised ==
    /\ call.op = "complex_combination" =>
         /\ call.ret.status = "panic" <=> (call.arg[1] = << >>)
         /\ ~call.ret.v
    /\ call.op = "single" =>
         /\ call.ret.status = "ok"
         /\ call.ret.some <=> (Len(call.arg[1]) = 1)
         /\ call.ret.some => call.ret.v = call.arg[1]
    /\ call.op = "combination" =>
         /\ call.ret.status = "ok"
         /\ call.ret.some <=> (Len(call.arg[1]) = 2)
         /\ call.ret.some => call.ret.v = call.arg[1]

\* parsing: the token MIXED gives the single mixed marker, a token without
\* '+' one category, two tokens joined by '+' two
C27_ParsedCategories ==
    (call.op = "from_str" /\ call.ret.ok) =>
      /\ Len(call.ret.inner) = (IF FindChar(trim(call.arg[1]), "+", 1) # 0 THEN 2 ELSE 1)
      /\ trim(call.arg[1]) = <<"M", "I", "X", "E", "D">> => call.ret.inner = <<"ComplexMix">>

\* two datasets agree on header fields, epoch set, samples and comments
SameContent(a, b) ==
    /\ \A k \in {"version", "data_type", "data_used", "time_system", "constellation",
                 "coord_system", "orbit_type", "agency", "week_counter",
                 "epoch_interval", "mjd_start", "comments",
                 "position", "velocities", "clock", "clock_rate"} : a[k] = b[k]
    /\ Range(a.epoch) = Range(b.epoch)

\* C4: for the dataset D of a well-formed file of several epochs, to_file
\* returns, reading the file it wrote succeeds, and the dataset read equals
\* D on header fields, epoch set, samples and comments.
C4_RoundTrip ==
    files[1] \in SampleFiles =>
      /\ (pc = "written" => disk.status = "ok")
      /\ (pc = "reread" => err = "" /\ SameContent(rhs, self))

====
